---------------------------- MODULE Spec2Model ----------------------------
(***************************************************************************)
(* Voice threat scoring engine of THREAT-DETECTOR:                         *)
(*   - src/model/text_model.py   TextThreatClassifier.predict              *)
(*   - src/model/voice_model.py  VoiceThreatClassifier.predict, the        *)
(*     rule-based fallback, and the real-time monitor (start / stop /      *)
(*     get_alerts and the monitoring_worker thread)                        *)
(*   - src/main.py               the host's alert system status            *)
(*                                                                         *)
(* Three specifications share the variables:                               *)
(*   SpecPredict  one-shot predict calls on inputs drawn from bounded sets *)
(*   Spec         the monitor: the host's start / stop and the workers     *)
(*   SpecDrain    the monitor with consumers polling get_alerts            *)
(***************************************************************************)
EXTENDS Integers, Sequences, FiniteSets, TLC

(***************************************************************************)
(* IEEE-754 doubles.  Every score of the program is a Python float.  A     *)
(* double d that is 0 or at least 2^-4 is a multiple of 2^-56, so          *)
(* d * 1000 * 2^56 is an integer; it is written k * 2^56 + e with k the    *)
(* nearest number of thousandths, and d is represented exactly by the pair *)
(* <<k, e>> (0.7 is <<700, -3200>>: the double nearest 0.7 lies            *)
(* 3200 / (1000 * 2^56) below 7/10).  |e| stays far below 2^56, so doubles *)
(* compare as the pairs compare lexicographically.                         *)
(***************************************************************************)
RECURSIVE Pow2Mod(_, _)
Pow2Mod(n, m) == IF n = 0 THEN 1 % m ELSE (2 * Pow2Mod(n - 1, m)) % m

FLt(a, b) == a[1] < b[1] \/ (a[1] = b[1] /\ a[2] < b[2])
FGt(a, b) == FLt(b, a)
FGe(a, b) == ~FLt(a, b)
FLe(a, b) == ~FLt(b, a)

\* Spacing of the doubles around the exact value <<k, e>>, in units of
\* 2^-56 / 1000: 2^-52 in [1,2), 2^-53 in [1/2,1), ... 2^-56 in [1/16,1/8).
Ulp(k, e) ==
    IF FGe(<<k, e>>, <<1000, 0>>) THEN 16000
    ELSE IF FGe(<<k, e>>, <<500, 0>>) THEN 8000
    ELSE IF FGe(<<k, e>>, <<250, 0>>) THEN 4000
    ELSE IF FGe(<<k, e>>, <<125, 0>>) THEN 2000
    ELSE 1000

\* The element of a singleton.  {f(x) : x \in {v}} evaluates v once.
TheOne(S) == CHOOSE x \in S : TRUE

\* Round the exact value <<k, e>> to the nearest double, ties to even:
\* g is the spacing, r2 the value modulo 2g, r the excess over the double
\* below.
FRound(k, e) ==
    TheOne({
      TheOne({
        TheOne({
          LET r  == r2 % g
              up == <<kv, ev + g - r>>
              dn == <<kv, ev - r>>
          IN  IF r = 0 THEN <<kv, ev>>
              ELSE IF 2 * r < g THEN dn
              ELSE IF 2 * r > g THEN up
              ELSE IF r2 >= g THEN up ELSE dn
          : r2 \in {(kv * Pow2Mod(56, 2 * g) + ev) % (2 * g)}})
        : g \in {Ulp(kv, ev)}})
      : kv \in {k}, ev \in {e}})

\* a + b of two non-negative doubles, as the hardware computes it.
FAdd(a, b) ==
    TheOne({IF x = <<0, 0>> THEN y
            ELSE IF y = <<0, 0>> THEN x
            ELSE FRound(x[1] + y[1], x[2] + y[2]) : x \in {a}, y \in {b}})

\* The float literals of the source (repr -> exact double).
F00 == <<0, 0>>
F01 == <<100, 400>>
F02 == <<200, 800>>
F03 == <<300, -800>>
F04 == <<400, 1600>>
F05 == <<500, 0>>
F06 == <<600, -1600>>
F07 == <<700, -3200>>
F08 == <<800, 3200>>
F09 == <<900, 1600>>
F10 == <<1000, 0>>
F059 == <<590, -2240>>
F061 == <<610, -960>>

(***************************************************************************)
(* VoiceThreatClassifier._rule_based_prediction / _get_prediction_from_    *)
(* score / _map_prediction_to_label                                        *)
(***************************************************************************)
\* dict.get(key, 0)
Get(d, key) == IF key \in DOMAIN d THEN d[key] ELSE F00

\* The mutant compares the score with >= 0.7 instead of > 0.7.
rule_based_prediction_ge(features, voice_analysis) ==
    LET s1 == IF FGt(Get(voice_analysis, "stress_indicators"), F07)
              THEN FAdd(F00, F03) ELSE F00
        s2 == IF FGt(Get(voice_analysis, "aggression_indicators"), F07)
              THEN FAdd(s1, F04) ELSE s1
        s3 == IF FGt(Get(voice_analysis, "volume_variation"), F05)
              THEN FAdd(s2, F02) ELSE s2
        score == IF FGt(Get(voice_analysis, "pitch_variation"), F05)
                 THEN FAdd(s3, F01) ELSE s3
    IN  IF FGe(score, F07) THEN <<2, score>>
        ELSE IF FGt(score, F04) THEN <<1, score>>
        ELSE <<0, score>>

\* The mutant swaps the weights of stress and aggression.
rule_based_prediction_swapped(features, voice_analysis) ==
    LET s1 == IF FGt(Get(voice_analysis, "stress_indicators"), F07)
              THEN FAdd(F00, F04) ELSE F00
        s2 == IF FGt(Get(voice_analysis, "aggression_indicators"), F07)
              THEN FAdd(s1, F03) ELSE s1
        s3 == IF FGt(Get(voice_analysis, "volume_variation"), F05)
              THEN FAdd(s2, F02) ELSE s2
        score == IF FGt(Get(voice_analysis, "pitch_variation"), F05)
                 THEN FAdd(s3, F01) ELSE s3
    IN  IF FGt(score, F07) THEN <<2, score>>
        ELSE IF FGt(score, F04) THEN <<1, score>>
        ELSE <<0, score>>

\* The mutant adds the stress weight when stress is below 0.7.
rule_based_prediction_low_stress(features, voice_analysis) ==
    LET s1 == IF FLt(Get(voice_analysis, "stress_indicators"), F07)
              THEN FAdd(F00, F03) ELSE F00
        s2 == IF FGt(Get(voice_analysis, "aggression_indicators"), F07)
              THEN FAdd(s1, F04) ELSE s1
        s3 == IF FGt(Get(voice_analysis, "volume_variation"), F05)
              THEN FAdd(s2, F02) ELSE s2
        score == IF FGt(Get(voice_analysis, "pitch_variation"), F05)
                 THEN FAdd(s3, F01) ELSE s3
    IN  IF FGt(score, F07) THEN <<2, score>>
        ELSE IF FGt(score, F04) THEN <<1, score>>
        ELSE <<0, score>>

\* Lines 836-862.
rule_based_prediction(features, voice_analysis) ==
    LET s1 == IF FGt(Get(voice_analysis, "stress_indicators"), F07)
              THEN FAdd(F00, F03) ELSE F00
        s2 == IF FGt(Get(voice_analysis, "aggression_indicators"), F07)
              THEN FAdd(s1, F04) ELSE s1
        s3 == IF FGt(Get(voice_analysis, "volume_variation"), F05)
              THEN FAdd(s2, F02) ELSE s2
        score == IF FGt(Get(voice_analysis, "pitch_variation"), F05)
                 THEN FAdd(s3, F01) ELSE s3
    IN  IF FGt(score, F07) THEN <<2, score>>
        ELSE IF FGt(score, F04) THEN <<1, score>>
        ELSE <<0, score>>

\* The mutant tests score >= 0.7 and score >= 0.4.
get_prediction_from_score_ge(score) ==
    IF FGe(score, F07) THEN 2
    ELSE IF FGe(score, F04) THEN 1
    ELSE 0

\* Lines 892-899.
get_prediction_from_score(score) ==
    IF FGt(score, F07) THEN 2
    ELSE IF FGt(score, F04) THEN 1
    ELSE 0

map_prediction_to_label(prediction) ==
    IF prediction = 0 THEN <<"Safe", "ok">>
    ELSE IF prediction = 1 THEN <<"Offensive", "excl">>
    ELSE <<"Threat", "warn">>

(***************************************************************************)
(* TextThreatClassifier.predict (src/model/text_model.py).  A text is a    *)
(* sequence of lower-case words; a regular expression of the source that   *)
(* names a word matches a text that contains the word.                     *)
(***************************************************************************)
Words(text) == {text[i] : i \in 1..Len(text)}

money_keywords == {"$500", "rs100", "transfer", "payment", "account", "bank"}
text_threat_keywords ==
    {"kill", "attack", "bomb", "shoot", "die", "murder", "threat", "harm"}
label_names == {"toxic", "severe_toxic", "obscene", "threat", "insult",
                "identity_hate", "sexual_explicit"}

\* The outcome of a call: a value, or an exception.
Ret(v) == [raised |-> FALSE, val |-> v]
Raise == [raised |-> TRUE, val |-> <<>>]

\* The mutant tests the threat keywords before the money patterns.
TextPredict_threat_first(text, tm) ==
    IF Words(text) \cap text_threat_keywords # {} THEN Ret(<<"Threat", "warn">>)
    ELSE IF Words(text) \cap money_keywords # {}
         THEN Ret(<<"Offensive", "excl">>)
    ELSE IF tm.raised THEN Raise
    ELSE IF FGt(tm.scores["threat"], F04) \/ FGt(tm.scores["sexual_explicit"], F04)
            \/ FGt(tm.scores["identity_hate"], F04)
         THEN Ret(<<"Threat", "warn">>)
    ELSE IF FGt(tm.scores["toxic"], F04) \/ FGt(tm.scores["obscene"], F04)
            \/ FGt(tm.scores["severe_toxic"], F04) \/ FGt(tm.scores["insult"], F04)
         THEN Ret(<<"Offensive", "excl">>)
    ELSE Ret(<<"Safe", "ok">>)

\* tm is what the transformer model does on the text: it raises, or it
\* gives the sigmoid scores of the seven labels (tm.scores).
TextPredict(text, tm) ==
    IF Words(text) \cap money_keywords # {} THEN Ret(<<"Offensive", "excl">>)
    ELSE IF Words(text) \cap text_threat_keywords # {}
         THEN Ret(<<"Threat", "warn">>)
    ELSE IF tm.raised THEN Raise
    ELSE IF FGt(tm.scores["threat"], F04) \/ FGt(tm.scores["sexual_explicit"], F04)
            \/ FGt(tm.scores["identity_hate"], F04)
         THEN Ret(<<"Threat", "warn">>)
    ELSE IF FGt(tm.scores["toxic"], F04) \/ FGt(tm.scores["obscene"], F04)
            \/ FGt(tm.scores["severe_toxic"], F04) \/ FGt(tm.scores["insult"], F04)
         THEN Ret(<<"Offensive", "excl">>)
    ELSE Ret(<<"Safe", "ok">>)

(***************************************************************************)
(* VoiceThreatClassifier._analyze_transcription: the three pattern lists   *)
(* of __init__ (a pattern is the sequence of its words; the lists keep the *)
(* source's order and its repeated entries).                               *)
(***************************************************************************)
threat_keywords == <<
    <<"kill">>, <<"attack">>, <<"bomb">>, <<"shoot">>, <<"die">>,
    <<"murder">>, <<"threat">>, <<"harm">>, <<"scam">>, <<"fraud">>,
    <<"steal">>, <<"blackmail">>, <<"kidnap">>, <<"explode">>,
    <<"weapon">>, <<"gun">>, <<"knife">>, <<"poison">>, <<"assault">>,
    <<"terror">>, <<"violence">>, <<"hostage">>, <<"explosive">>,
    <<"detonate">>, <<"assassinate">>, <<"execute">>, <<"maim">>,
    <<"torture">>, <<"terrorize">>, <<"intimidate">>, <<"beat">>,
    <<"stab">>, <<"strangle">>, <<"suffocate">>, <<"poison">>,
    <<"arson">>, <<"riot">>, <<"gang">>, <<"cartel">>, <<"mafia">> >>

distress_indicators == <<
    <<"help">>, <<"save">>, <<"danger">>, <<"emergency">>, <<"police">>,
    <<"ambulance">>, <<"hospital">>, <<"accident">>, <<"injury">>,
    <<"panic">>, <<"scared">>, <<"afraid">>, <<"terrified">>, <<"desperate">>,
    <<"trapped">>, <<"stuck">>, <<"choking">>, <<"bleeding">>, <<"unconscious">>,
    <<"heart", "attack">>, <<"stroke">>, <<"seizure">>, <<"overdose">>,
    <<"suicide">>, <<"self", "harm">>, <<"cutting">>, <<"hanging">>,
    <<"overdose">>, <<"poisoning">>, <<"drowning">>, <<"fire">>,
    <<"explosion">>, <<"crash">>, <<"wreck">>, <<"disaster">>,
    <<"catastrophe">>, <<"crisis">>, <<"breakdown">>, <<"mental", "health">> >>

scam_indicators == <<
    <<"prize">>, <<"winner">>, <<"lottery">>, <<"inheritance">>,
    <<"account">>, <<"password">>, <<"credit">>, <<"card">>,
    <<"social", "security">>, <<"tax">>, <<"irs">>, <<"government">>,
    <<"verify">>, <<"confirm">>, <<"update">>, <<"secure">>,
    <<"immediate">>, <<"urgent">>, <<"now">>, <<"quick">>, <<"wire">>,
    <<"transfer">>, <<"payment">>, <<"paypal">>, <<"venmo">>, <<"cash", "app">>,
    <<"gift", "card">>, <<"prepaid">>, <<"cryptocurrency">>, <<"bitcoin">>,
    <<"wallet">>, <<"private", "key">>, <<"seed", "phrase">>, <<"backup">>,
    <<"verify", "identity">>, <<"confirm", "details">>, <<"update", "information">>,
    <<"security", "breach">>, <<"unauthorized", "access">>, <<"suspicious", "activity">>,
    <<"nigerian", "prince">>, <<"royal", "family">>, <<"diamond">>, <<"gold">>,
    <<"oil">>, <<"contract">>, <<"deal">>, <<"offer">>, <<"limited", "time">>,
    <<"exclusive">>, <<"secret">>, <<"confidential">>, <<"private">>,
    <<"personal", "information">>, <<"bank", "account">>, <<"routing", "number">>,
    <<"ssn">>, <<"social", "security", "number">>, <<"driver", "license">>,
    <<"passport">>, <<"date", "of", "birth">>, <<"mother", "maiden", "name">> >>

\* re.search(pattern, text_lower): the words of the pattern, in a row.
Matches(pattern, text) ==
    \E i \in 1..(Len(text) - Len(pattern) + 1) :
        \A j \in 1..Len(pattern) : text[i + j - 1] = pattern[j]

\* sum(1 for pattern in patterns if re.search(pattern, text_lower))
MatchCount(patterns, text) ==
    Cardinality({i \in 1..Len(patterns) : Matches(patterns[i], text)})

\* min(count * step, cap), with cap = 2 * step in all three uses: the
\* product count * step of an int and a float is exact for 1 and 2 and
\* exceeds the cap from 3 on.
CappedScore(count, step, cap) == IF count = 1 THEN step ELSE cap

F025 == <<250, 0>>

analyze_transcription(transcription) ==
    IF transcription = <<>> THEN F00
    ELSE
      LET threat_count   == MatchCount(threat_keywords, transcription)
          distress_count == MatchCount(distress_indicators, transcription)
          scam_count     == MatchCount(scam_indicators, transcription)
          s1 == IF threat_count > 0
                THEN FAdd(F00, CappedScore(threat_count, F03, F06)) ELSE F00
          s2 == IF distress_count > 0
                THEN FAdd(s1, CappedScore(distress_count, F02, F04)) ELSE s1
          s3 == IF scam_count > 0
                THEN FAdd(s2, CappedScore(scam_count, F025, F05)) ELSE s2
      IN  IF FLt(s3, F10) THEN s3 ELSE F10

(***************************************************************************)
(* VoiceThreatClassifier.predict.  The input in of a call gathers the      *)
(* arguments and what the collaborators do during the call:                *)
(*   exists              os.path.exists(audio_path)                        *)
(*   fast_mode           the argument                                      *)
(*   transcription       the argument (<<>> for None or "")                *)
(*   speech_recognizer   the model is loaded; heard is what                *)
(*                       transcribe_audio returns (<<>> when it fails)     *)
(*   tm, scores_raise    the transformer of TextThreatClassifier; whether  *)
(*                       predict_scores raises                             *)
(*   audio               "ok", or "raise" when the audio analysis raises   *)
(*   rf                  "none", "ok", or "raise" (transform / predict     *)
(*                       fails); rf_class, rf_proba are its answer         *)
(*   features            extract_audio_features                            *)
(*   voice_analysis      analyze_voice_characteristics ({} on failure)     *)
(*   emotion_classifier, emotion_scores, toxicity_classifier,              *)
(*   toxicity_scores, sentiment_analyzer, sentiment_scores                 *)
(*                       each model is loaded, and what analyze_* returns  *)
(*                       (the empty mapping when it fails inside)          *)
(***************************************************************************)
Empty == [k \in {} |-> F00]

\* The audio branch shared by fast and full mode:
\* the trained classifier, or the rule-based fallback.
AudioPrediction(in) ==
    IF in.rf = "ok" THEN <<in.rf_class, in.rf_proba>>
    ELSE rule_based_prediction(Empty, in.voice_analysis)

\* sum(emotion_scores.get(emotion, 0) for emotion in negative_emotions)
NegativeEmotionSum(emotion_scores) ==
    FAdd(FAdd(FAdd(FAdd(F00, Get(emotion_scores, "angry")),
                   Get(emotion_scores, "fear")),
              Get(emotion_scores, "disgust")),
         Get(emotion_scores, "sad"))

\* max(toxicity_scores.values())
MaxValue(d) == CHOOSE v \in {d[k] : k \in DOMAIN d} :
                   \A k \in DOMAIN d : FLe(d[k], v)

\* The mutant weighs the keyword score alone by 0.3.
FinalScore_keyword_only(audio_score, keyword_score, emotion_score, toxicity_score, sentiment_score, has_text) ==
    LET text_score == IF has_text THEN keyword_score[1] * 10 ELSE 0
        total == audio_score[1] * 30 + text_score * 3 + emotion_score[1] * 20
                 + toxicity_score[1] * 10 + sentiment_score[1] * 10
        k == total \div 100
    IN  IF k < 63 THEN <<k, 0>> ELSE FRound(k, 0)

\* The mutant gives the audio score the weight 0.4: the weights sum to 1.1.
FinalScore_overweight(audio_score, keyword_score, emotion_score, toxicity_score, sentiment_score, has_text) ==
    LET text_score == IF has_text
                      THEN keyword_score[1] * 4 + toxicity_score[1] * 3
                           + sentiment_score[1] * 3
                      ELSE 0
        total == audio_score[1] * 40 + text_score * 3 + emotion_score[1] * 20
                 + toxicity_score[1] * 10 + sentiment_score[1] * 10
        k == total \div 100
    IN  IF k < 63 THEN <<k, 0>> ELSE FRound(k, 0)

\* The weighted sum of lines 772-778 on the thousandths of its operands,
\* evaluated exactly and rounded once to a double (below 2^-4 the pair
\* keeps the thousandths only).  text_score is in units of 10^-4, the sum
\* in units of 10^-5.
FinalScore(audio_score, keyword_score, emotion_score, toxicity_score, sentiment_score, has_text) ==
    LET text_score == IF has_text
                      THEN keyword_score[1] * 4 + toxicity_score[1] * 3
                           + sentiment_score[1] * 3
                      ELSE 0
        total == audio_score[1] * 30 + text_score * 3 + emotion_score[1] * 20
                 + toxicity_score[1] * 10 + sentiment_score[1] * 10
        k == total \div 100
    IN  IF k < 63 THEN <<k, 0>> ELSE FRound(k, 0)

\* The mutant labels the transcript Offensive when the text classifier
\* raises.
TextLabel_fail_offensive(in, transcription) ==
    IF transcription = <<>> THEN <<"Safe", "ok">>
    ELSE IF TextPredict(transcription, in.tm).raised THEN <<"Offensive", "excl">>
    ELSE TextPredict(transcription, in.tm).val

\* The mutant lets a failure of predict_scores reset the text label.
TextLabel_reset(in, transcription) ==
    IF transcription = <<>> THEN <<"Safe", "ok">>
    ELSE IF TextPredict(transcription, in.tm).raised \/ in.scores_raise
         THEN <<"Safe", "ok">>
    ELSE TextPredict(transcription, in.tm).val

\* Lines 704-713: text_label, text_emoji keep "Safe" when the transcript
\* is empty or predict raises; they are assigned before predict_scores runs.
TextLabel(in, transcription) ==
    IF transcription = <<>> THEN <<"Safe", "ok">>
    ELSE IF TextPredict(transcription, in.tm).raised THEN <<"Safe", "ok">>
    ELSE TextPredict(transcription, in.tm).val

\* Lines 697-702.
Transcription(in) ==
    IF in.transcription = <<>> /\ in.speech_recognizer
    THEN in.heard ELSE in.transcription

\* Lines 676-694; an exception of the audio analysis reaches line 782.
PredictFast(in) ==
    LET p == AudioPrediction(in)
        l == map_prediction_to_label(p[1])
    IN  IF in.audio = "raise" THEN <<"Safe", "ok", F05>>
        ELSE <<l[1], l[2], p[2]>>

PredictFull(in) ==
    LET transcription == Transcription(in)
        text == TextLabel(in, transcription)
        audio_score == IF in.audio = "raise" THEN F00
                       ELSE AudioPrediction(in)[2]
        emotion_score ==
            IF in.emotion_classifier /\ DOMAIN in.emotion_scores # {}
            THEN NegativeEmotionSum(in.emotion_scores) ELSE F00
        has_text == transcription # <<>>
        keyword_score == analyze_transcription(transcription)
        toxicity_score ==
            IF has_text /\ in.toxicity_classifier
               /\ DOMAIN in.toxicity_scores # {}
            THEN MaxValue(in.toxicity_scores) ELSE F00
        sentiment_score ==
            IF has_text /\ in.sentiment_analyzer
               /\ DOMAIN in.sentiment_scores # {}
            THEN Get(in.sentiment_scores, "negative") ELSE F00
        final_score == FinalScore(audio_score, keyword_score, emotion_score,
                                  toxicity_score, sentiment_score, has_text)
        l == map_prediction_to_label(get_prediction_from_score(final_score))
    IN  IF text[1] = "Threat" THEN <<"Threat", text[2], F10>>
        ELSE IF text[1] = "Offensive" THEN <<"Offensive", text[2], F08>>
        ELSE <<l[1], l[2], final_score>>

\* The mutant lets an exception of the audio analysis in fast mode leave
\* predict; "raise" stands for the exception.
predict_unguarded(in) ==
    IF ~in.exists THEN <<"Safe", "ok", F05>>
    ELSE IF in.fast_mode
         THEN IF in.audio = "raise" THEN <<"raise", "raise", F00>>
              ELSE PredictFast(in)
    ELSE PredictFull(in)

\* Lines 667-784: the file test of line 670, the two modes, and the
\* handler of line 782 that turns any exception into (Safe, 0.5).
predict(in) ==
    IF ~in.exists THEN <<"Safe", "ok", F05>>
    ELSE IF in.fast_mode THEN PredictFast(in)
    ELSE PredictFull(in)

(***************************************************************************)
(* The feature vector of a chunk.  features is the mapping returned by     *)
(* extract_audio_features: scalars are doubles, the three arrays are       *)
(* sequences of doubles; a key may be missing.                             *)
(***************************************************************************)
\* np.zeros(n)
Zeros(n) == [i \in 1..n |-> F00]

\* The length the three arrays are padded and cropped to.
ArrayLength == 13

\* Lines 792-796: the scalars read with features.get(key, 0), in order.
feature_keys ==
    <<"duration", "rms_energy", "zero_crossing_rate", "spectral_centroid",
      "spectral_bandwidth", "spectral_rolloff", "spectral_contrast",
      "harmonic_ratio", "percussive_ratio", "voice_activity_ratio",
      "loudness", "loudness_std", "jitter", "shimmer">>

\* Lines 828-829.
voice_keys ==
    <<"speaking_rate", "volume_variation", "pitch_variation",
      "stress_indicators", "aggression_indicators">>

\* features.get(key, np.zeros(13))
GetArray(features, key) ==
    IF key \in DOMAIN features THEN features[key] ELSE Zeros(ArrayLength)

\* The mutant pads a short array and keeps a long one whole.
PadCrop_pad_only(x) ==
    x \o Zeros(IF ArrayLength > Len(x) THEN ArrayLength - Len(x) ELSE 0)

\* np.pad(x, (0, max(0, 13 - len(x))))[:13]
PadCrop(x) ==
    SubSeq(x \o Zeros(IF ArrayLength > Len(x) THEN ArrayLength - Len(x) ELSE 0),
           1, ArrayLength)

\* _create_feature_vector: the list it builds, as a sequence.
create_feature_vector(features, voice_analysis) ==
    [i \in 1..Len(feature_keys) |-> Get(features, feature_keys[i])]
    \o PadCrop(GetArray(features, "mfcc_mean"))
    \o PadCrop(GetArray(features, "mfcc_std"))
    \o <<Get(features, "pitch_mean"), Get(features, "pitch_std")>>
    \o PadCrop(GetArray(features, "emotional_features"))
    \o [i \in 1..Len(voice_keys) |-> Get(voice_analysis, voice_keys[i])]

\* _get_default_features.
get_default_features ==
    [k \in {feature_keys[i] : i \in 1..Len(feature_keys)}
           \cup {"pitch_mean", "pitch_std", "tempo",
                 "mfcc_mean", "mfcc_std", "emotional_features"} |->
        IF k \in {"mfcc_mean", "mfcc_std", "emotional_features"}
        THEN Zeros(ArrayLength)
        ELSE IF k \in {"harmonic_ratio", "percussive_ratio",
                       "voice_activity_ratio"} THEN F05
        ELSE IF k = "tempo" THEN <<120000, 0>>
        ELSE F00]

(***************************************************************************)
(* extract_audio_features.  A call is described by what fails in it: the   *)
(* loading of the file, and any of the thirteen steps that compute the     *)
(* keys of step_keys.  A computed scalar is 0.9 and a computed array holds *)
(* thirteen times 0.9, values that no default has.                         *)
(***************************************************************************)
step_keys ==
    [duration |-> {"duration"}, rms_energy |-> {"rms_energy"},
     zero_crossing_rate |-> {"zero_crossing_rate"},
     spectral |-> {"spectral_centroid", "spectral_bandwidth",
                   "spectral_rolloff", "spectral_contrast"},
     mfcc |-> {"mfcc_mean", "mfcc_std"},
     pitch |-> {"pitch_mean", "pitch_std"},
     tempo |-> {"tempo"},
     harmonic |-> {"harmonic_ratio", "percussive_ratio"},
     voice_activity |-> {"voice_activity_ratio"},
     loudness |-> {"loudness", "loudness_std"},
     jitter |-> {"jitter"}, shimmer |-> {"shimmer"},
     emotional |-> {"emotional_features"}]

\* Lines 357-359: the steps that have no handler of their own.
basic_steps == {"duration", "rms_energy", "zero_crossing_rate"}

Computed(key) ==
    IF key \in {"mfcc_mean", "mfcc_std", "emotional_features"}
    THEN [i \in 1..ArrayLength |-> F09] ELSE F09

\* What a failing step leaves in its keys: the literals of the handlers
\* (lines 370-374, 383-385, 398-401, 408-409, 418-419, 431, 440-441) and of
\* _calculate_jitter, _calculate_shimmer, _extract_emotional_features; they
\* are the values of _get_default_features.
HandlerDefault(key) == get_default_features[key]

\* The mutant has no handler but the outer one: any failure gives the
\* default mapping.
extract_audio_features_outer_only(load_fails, fails) ==
    IF load_fails \/ fails # {} THEN get_default_features
    ELSE [key \in UNION {step_keys[s] : s \in DOMAIN step_keys} |-> Computed(key)]

\* Lines 342-456.
extract_audio_features(load_fails, fails) ==
    IF load_fails \/ fails \cap basic_steps # {} THEN get_default_features
    ELSE [key \in UNION {step_keys[s] : s \in DOMAIN step_keys} |->
            IF \E s \in fails : key \in step_keys[s]
            THEN HandlerDefault(key) ELSE Computed(key)]

(***************************************************************************)
(* analyze_voice_characteristics and its five analyses.  Measures and      *)
(* results are in thousandths (a result r stands for the double r / 1000,  *)
(* to the thousandth); a call is described by what librosa measures on the *)
(* chunk and by which analyses fail.                                       *)
(***************************************************************************)
Minimum(a, b) == IF a < b THEN a ELSE b

\* Lines 580-597: (onsets * 0.7 / duration) * 60, 0.7 words per onset and
\* duration in seconds; the quotient is taken last, to keep the thousandths.
analyze_speaking_rate(onsets, duration) ==
    IF onsets < 2 THEN 0 ELSE (onsets * 700 * 60) \div duration

\* Lines 599-610: volume_std / volume_mean.
analyze_volume_variation(volume_std, volume_mean) ==
    IF volume_mean > 0 THEN (volume_std * 1000) \div volume_mean ELSE 0

\* Lines 612-628: pitch_std / pitch_mean over at least two pitch values.
analyze_pitch_variation(pitch_values, pitch_std, pitch_mean) ==
    IF pitch_values < 2 THEN 0
    ELSE IF pitch_mean > 0 THEN (pitch_std * 1000) \div pitch_mean ELSE 0

\* The mutant returns the stress score unclamped.
analyze_stress_indicators_unclamped(jitter, shimmer, spectral_centroid) ==
    ((jitter * 4 + shimmer * 4 + spectral_centroid * 2) \div 10) \div 1000

\* Lines 630-645: min((jitter*0.4 + shimmer*0.4 + centroid*0.2) / 1000, 1.0).
analyze_stress_indicators(jitter, shimmer, spectral_centroid) ==
    Minimum(((jitter * 4 + shimmer * 4 + spectral_centroid * 2) \div 10)
                \div 1000, 1000)

\* Lines 647-665: min((loudness*0.4 + bandwidth*0.3 + tempo*0.3) / 1000, 1.0).
analyze_aggression_indicators(loudness, spectral_bandwidth, tempo) ==
    Minimum(((loudness * 4 + spectral_bandwidth * 3 + tempo * 3) \div 10)
                \div 1000, 1000)

\* Lines 544-578: the five analyses; each returns 0.0 when it fails inside
\* (its bare except), and a failure of the load returns {}.
analyze_voice_characteristics(c) ==
    IF c.load_fails THEN Empty
    ELSE [k \in {voice_keys[i] : i \in 1..Len(voice_keys)} |->
            IF k \in c.fails THEN <<0, 0>>
            ELSE IF k = "speaking_rate"
                 THEN <<analyze_speaking_rate(c.onsets, c.duration), 0>>
            ELSE IF k = "volume_variation"
                 THEN <<analyze_volume_variation(c.volume[1], c.volume[2]), 0>>
            ELSE IF k = "pitch_variation"
                 THEN <<analyze_pitch_variation(c.pitch[1], c.pitch[2],
                                                c.pitch[3]), 0>>
            ELSE IF k = "stress_indicators"
                 THEN <<analyze_stress_indicators(c.jitter, c.shimmer,
                                                  c.spectral_centroid), 0>>
            ELSE <<analyze_aggression_indicators(c.loudness,
                                                 c.spectral_bandwidth,
                                                 c.tempo), 0>>]

(***************************************************************************)
(* Bounds of the model.                                                    *)
(***************************************************************************)
MaxStarts == 2      \* calls of start_real_time_monitoring (worker threads)
MaxChunks == 2      \* chunks read from the input streams, over all workers
MaxPolls  == 2      \* calls of get_alerts, per consumer
NumConsumers == 2   \* host threads that poll get_alerts
MaxArrayLen == 14   \* longest mfcc_mean, mfcc_std, emotional_features
MaxWords == 3       \* longest transcript given to _analyze_transcription
MaxOnsets == 3      \* most onsets detected in a chunk

Workers   == 1..MaxStarts
Consumers == 1..NumConsumers

(***************************************************************************)
(* Inputs of predict.                                                      *)
(***************************************************************************)
Scores(high, v) == [l \in label_names |-> IF l = high THEN v ELSE F01]

DefaultInput ==
    [exists |-> TRUE, fast_mode |-> TRUE, transcription |-> <<>>,
     speech_recognizer |-> FALSE, heard |-> <<>>,
     tm |-> [raised |-> FALSE, scores |-> Scores("none", F01)],
     scores_raise |-> FALSE, audio |-> "ok",
     rf |-> "none", rf_class |-> 0, rf_proba |-> F00,
     features |-> get_default_features, voice_analysis |-> Empty,
     emotion_classifier |-> FALSE, emotion_scores |-> Empty,
     toxicity_classifier |-> FALSE, toxicity_scores |-> Empty,
     sentiment_analyzer |-> FALSE, sentiment_scores |-> Empty]

\* stress_indicators = 0.9, aggression_indicators = 0.9, others absent.
ScenarioB == [k \in {"stress_indicators", "aggression_indicators"} |-> F09]

\* stress 0.9, volume variation 0.9, pitch variation 0.9: 0.3 + 0.2 + 0.1.
StressVolumePitch ==
    [k \in {"stress_indicators", "volume_variation", "pitch_variation"} |-> F09]

\* What the analysis of one captured chunk can be: the answer of the
\* trained classifier (Threat 0.61, Threat 0.59, Safe 0.9), or the
\* rule-based fallback when it fails (Offensive 0.7, Offensive 0.6).
ChunkInputs ==
    {[DefaultInput EXCEPT !.rf = "ok", !.rf_class = c[1], !.rf_proba = c[2]] :
        c \in {<<2, F061>>, <<2, F059>>, <<0, F09>>}}
    \cup {[DefaultInput EXCEPT !.rf = "raise", !.voice_analysis = va] :
            va \in {ScenarioB, StressVolumePitch}}

(***************************************************************************)
(* State.                                                                  *)
(***************************************************************************)
VARIABLES
    \* VoiceThreatClassifier (voice_model.py:53-55)
    is_monitoring, alert_queue, monitoring_thread,
    \* monitoring_worker threads: position and locals
    pc, chunk, assess, alert_callback, audio_callback,
    \* the host thread (start / stop) and main.py's status label
    hpc, start_result, alert_status,
    \* consumers inside get_alerts: position and the local list alerts
    cpc, alerts,
    \* history of the workers: chunks captured; a stop reached the worker
    \* while it was alive (stopped), it began a read after that
    \* (read_after_stop); the alert of its current chunk was put (did_put)
    captured, stopped, read_after_stop, did_put,
    \* history of the consumers: the chunks whose alerts get_alerts has
    \* returned, to anyone (returned) and the latest to each consumer
    \* (high); no put since the consumer's previous get_alerts returned
    \* (quiet); calls of get_alerts (polls)
    returned, high, quiet, polls,
    \* history of the callbacks of the current chunk: the alerts passed to
    \* alert_callback (called), the callback that raised (raised); what made
    \* the worker leave through the outer handler (failure)
    called, raised, failure,
    \* main.py: alert_counter, and the alerts created that pass the filters
    \* of handle_voice_alert (passed)
    alert_counter, passed,
    \* what the environment does in this run: how many times the host
    \* starts, how many chunks the streams deliver, how often each consumer
    \* polls, the callbacks the host passes, what a chunk can hold
    limit,
    \* one-shot calls (SpecPredict): input, result of predict, result of
    \* _rule_based_prediction, result of _create_feature_vector
    pin, pout, rule_out, feature_vector,
    \* one-shot calls of the analysis functions (SpecAnalysis): the call
    \* (its name and arguments) and its result
    ain, aout

classifier_vars == <<is_monitoring, alert_queue, monitoring_thread>>
worker_vars     == <<pc, chunk, assess, alert_callback, audio_callback>>
host_vars       == <<hpc, start_result, alert_status>>
consumer_vars   == <<cpc, alerts>>
worker_hist     == <<captured, stopped, read_after_stop, did_put>>
consumer_hist   == <<returned, high, quiet, polls>>
callback_hist   == <<called, raised, failure>>
app_hist        == <<alert_counter, passed>>
analysis_vars   == <<ain, aout>>
predict_vars    == <<pin, pout, rule_out, feature_vector, analysis_vars>>
monitor_vars == <<classifier_vars, worker_vars, host_vars, consumer_vars,
                  worker_hist, consumer_hist, callback_hist, app_hist>>
vars == <<monitor_vars, limit, predict_vars>>

None == <<>>

\* The state after VoiceThreatClassifier.__init__ (lines 53-55).
MonitorInit ==
    /\ is_monitoring = FALSE
    /\ alert_queue = <<>>
    /\ monitoring_thread = 0
    /\ pc = [w \in Workers |-> "unborn"]
    /\ chunk = [w \in Workers |-> 0]
    /\ assess = [w \in Workers |-> None]
    /\ alert_callback = [w \in Workers |-> FALSE]
    /\ audio_callback = [w \in Workers |-> FALSE]
    /\ hpc = "idle"
    /\ start_result = None
    /\ alert_status = "INACTIVE"
    /\ cpc = [c \in Consumers |-> "idle"]
    /\ alerts = [c \in Consumers |-> <<>>]
    /\ captured = 0
    /\ stopped = [w \in Workers |-> "no"]
    /\ read_after_stop = [w \in Workers |-> FALSE]
    /\ did_put = [w \in Workers |-> FALSE]
    /\ returned = {}
    /\ high = [c \in Consumers |-> 0]
    /\ quiet = [c \in Consumers |-> FALSE]
    /\ polls = [c \in Consumers |-> 0]
    /\ called = [w \in Workers |-> <<>>]
    /\ raised = [w \in Workers |-> "none"]
    /\ failure = [w \in Workers |-> "none"]
    /\ alert_counter = 0
    /\ passed = 0

(***************************************************************************)
(* queue.Queue() (line 1016: no maxsize, so put never blocks or drops)     *)
(***************************************************************************)
\* The mutant is a queue of capacity 1 that drops its oldest entry.
QueuePut_drop_oldest(q, a) ==
    IF Len(q) >= 1 THEN Append(Tail(q), a) ELSE Append(q, a)

\* alert_queue.put(alert_data)
QueuePut(q, a) == Append(q, a)

\* The mutant reads the head and leaves it in the queue.
QueueGetNowait_peek(q) == <<Head(q), q>>

\* alert_queue.get_nowait() on a non-empty queue: the item, the rest.
QueueGetNowait(q) == <<Head(q), Tail(q)>>

(***************************************************************************)
(* monitoring_worker (voice_model.py:1018-1080)                            *)
(***************************************************************************)
\* The mutant tests confidence >= 0.6.
AlertCondition_ge(label, confidence) ==
    label \in {"Threat", "Offensive"} /\ FGe(confidence, F06)

\* Line 1045.
AlertCondition(label, confidence) ==
    label \in {"Threat", "Offensive"} /\ FGt(confidence, F06)

\* The mutant loops whatever the flag says.
LoopCondition_ignore(flag) == TRUE

\* Line 1028: while self.is_monitoring.
LoopCondition(flag) == flag

\* Lines 1046-1053; chunk stands for timestamp and audio_file.
AlertData(w) == [label |-> assess[w][1], confidence |-> assess[w][3],
                 chunk |-> chunk[w], emoji |-> assess[w][2]]

Live(w) == pc[w] \notin {"unborn", "done", "failed"}

\* Line 1027: sd.InputStream(...) opens, or raises (lines 1078-1080).
OpenStream(w) ==
    /\ pc[w] = "open"
    /\ \/ /\ pc' = [pc EXCEPT ![w] = "check"]
          /\ UNCHANGED is_monitoring
       \/ /\ pc' = [pc EXCEPT ![w] = "failed"]
          /\ is_monitoring' = FALSE
    /\ failure' = [failure EXCEPT ![w] = IF pc'[w] = "failed" THEN "stream"
                                          ELSE "none"]
    /\ UNCHANGED <<alert_queue, monitoring_thread, chunk, assess,
                   alert_callback, audio_callback, host_vars, consumer_vars,
                   worker_hist, consumer_hist, limit, predict_vars, called,
                   raised, app_hist>>

\* Line 1028: the loop test; leaving the loop closes the stream.
LoopTest(w) ==
    /\ pc[w] = "check"
    /\ pc' = [pc EXCEPT ![w] = IF LoopCondition(is_monitoring)
                                THEN "read" ELSE "done"]
    /\ UNCHANGED <<classifier_vars, chunk, assess, alert_callback,
                   audio_callback, host_vars, consumer_vars, worker_hist,
                   consumer_hist, limit, predict_vars, callback_hist, app_hist>>

\* Lines 1030-1038: stream.read and the temporary WAV file; a failure of
\* either is outside the inner try and ends the loop (lines 1078-1080).
ReadChunk(w) ==
    /\ pc[w] = "read"
    /\ captured < limit.chunks
    /\ \/ /\ pc' = [pc EXCEPT ![w] = "predict"]
          /\ captured' = captured + 1
          /\ chunk' = [chunk EXCEPT ![w] = captured + 1]
          /\ read_after_stop' =
                [read_after_stop EXCEPT ![w] = (stopped[w] = "stopped")]
          /\ UNCHANGED <<is_monitoring, failure>>
       \/ /\ pc' = [pc EXCEPT ![w] = "failed"]
          /\ is_monitoring' = FALSE
          /\ \E cause \in {"stream", "file"} \cap limit.faults :
                failure' = [failure EXCEPT ![w] = cause]
          /\ UNCHANGED <<captured, chunk, read_after_stop>>
    /\ UNCHANGED <<alert_queue, monitoring_thread, assess, alert_callback,
                   audio_callback, host_vars, consumer_vars, stopped,
                   did_put, consumer_hist, limit, predict_vars, called,
                   raised, app_hist>>

\* After the alert branch: the audio callback if given, else the clean-up.
AfterAlert(w) == IF audio_callback[w] THEN "audio_cb" ELSE "cleanup"

\* Lines 1042-1045: predict(tmp_file.name, fast_mode=True), then the test.
Classify(w) ==
    /\ pc[w] = "predict"
    /\ \E in \in limit.inputs :
         LET a == predict(in) IN
           /\ assess' = [assess EXCEPT ![w] = a]
           /\ pc' = [pc EXCEPT ![w] = IF AlertCondition(a[1], a[3])
                                       THEN "put" ELSE AfterAlert(w)]
    /\ UNCHANGED <<classifier_vars, chunk, alert_callback, audio_callback,
                   host_vars, consumer_vars, worker_hist, consumer_hist,
                   limit, predict_vars, callback_hist, app_hist>>

\* main.py:1601-1611, the filters of handle_voice_alert: the type of the
\* alert is enabled and its confidence is not below the sensitivity.
PassesFilters(alert) ==
    /\ ~(alert.label = "Threat" /\ ~limit.host.alert_threats)
    /\ ~(alert.label = "Offensive" /\ ~limit.host.alert_offensive)
    /\ ~FLt(alert.confidence, limit.host.sensitivity)

\* main.py:1599-1635, handle_voice_alert on each alert of a sequence: the
\* new value of alert_counter (line 1614).  Its own handler (1634-1635)
\* keeps every exception inside.
handle_voice_alert(counter, seq) ==
    counter + Cardinality({i \in 1..Len(seq) : PassesFilters(seq[i])})

\* The mutant never invokes the alert callback.
AfterPut_skip(w) == AfterAlert(w)

\* Lines 1059-1060: if alert_callback: alert_callback(alert_data).
AfterPut(w) == IF alert_callback[w] THEN "alert_cb" ELSE AfterAlert(w)

\* The mutant lets the exception of a callback reach the outer handler.
OnCallbackError_outer == "failed"

\* Lines 1066-1067: the inner handler prints the exception; the iteration
\* goes on with the clean-up of line 1069.
OnCallbackError == "cleanup"

\* Line 1056.
PutAlert(w) ==
    /\ pc[w] = "put"
    /\ alert_queue' = QueuePut(alert_queue, AlertData(w))
    /\ did_put' = [did_put EXCEPT ![w] = TRUE]
    /\ quiet' = [c \in Consumers |-> FALSE]
    /\ pc' = [pc EXCEPT ![w] = AfterPut(w)]
    /\ passed' = IF limit.host.app
                 THEN handle_voice_alert(passed, <<AlertData(w)>>)
                 ELSE passed
    /\ UNCHANGED <<is_monitoring, monitoring_thread, chunk, assess,
                   alert_callback, audio_callback, host_vars, consumer_vars,
                   captured, stopped, read_after_stop, returned, high, polls,
                   limit, predict_vars, callback_hist, alert_counter>>

\* Lines 1059-1060: the callback returns, or raises into line 1066.
AlertCallback(w) ==
    /\ pc[w] = "alert_cb"
    /\ called' = [called EXCEPT ![w] = Append(called[w], AlertData(w))]
    /\ \/ /\ pc' = [pc EXCEPT ![w] = AfterAlert(w)]
          /\ alert_counter' =
                IF limit.host.app
                THEN handle_voice_alert(alert_counter, <<AlertData(w)>>)
                ELSE alert_counter
          /\ UNCHANGED raised
       \/ /\ "alert_callback" \in limit.faults
          /\ pc' = [pc EXCEPT ![w] = OnCallbackError]
          /\ raised' = [raised EXCEPT ![w] = "alert_callback"]
          /\ UNCHANGED alert_counter
    /\ UNCHANGED <<classifier_vars, chunk, assess, alert_callback,
                   audio_callback, host_vars, consumer_vars, worker_hist,
                   consumer_hist, limit, predict_vars, failure, passed>>

\* Lines 1063-1067: the callback returns, or raises into line 1066; both
\* reach line 1069.
AudioCallback(w) ==
    /\ pc[w] = "audio_cb"
    /\ \/ /\ pc' = [pc EXCEPT ![w] = "cleanup"]
          /\ UNCHANGED raised
       \/ /\ "audio_callback" \in limit.faults
          /\ pc' = [pc EXCEPT ![w] = OnCallbackError]
          /\ raised' = [raised EXCEPT ![w] = "audio_callback"]
    /\ UNCHANGED <<classifier_vars, chunk, assess, alert_callback,
                   audio_callback, host_vars, consumer_vars, worker_hist,
                   consumer_hist, limit, predict_vars, called, failure,
                   app_hist>>

\* Lines 1069-1076: os.unlink of the temporary file, time.sleep(0.1).
CleanUp(w) ==
    /\ pc[w] = "cleanup"
    /\ pc' = [pc EXCEPT ![w] = "check"]
    /\ chunk' = [chunk EXCEPT ![w] = 0]
    /\ assess' = [assess EXCEPT ![w] = None]
    /\ did_put' = [did_put EXCEPT ![w] = FALSE]
    /\ called' = [called EXCEPT ![w] = <<>>]
    /\ raised' = [raised EXCEPT ![w] = "none"]
    /\ UNCHANGED <<classifier_vars, alert_callback, audio_callback,
                   host_vars, consumer_vars, captured, stopped,
                   read_after_stop, consumer_hist, limit, predict_vars,
                   failure, app_hist>>

(***************************************************************************)
(* The host: start_real_time_monitoring (1007-1086),                       *)
(* stop_real_time_monitoring (1088-1093), and the status label that        *)
(* main.py's start_alert_system / stop_alert_system set from the result.   *)
(***************************************************************************)
StartedWorkers == {w \in Workers : pc[w] # "unborn"}

start_real_time_monitoring(acb, aucb) ==
    /\ hpc = "idle"
    /\ Cardinality(StartedWorkers) < limit.starts
    /\ <<acb, aucb>> \in limit.callers
    /\ LET w == Cardinality(StartedWorkers) + 1 IN
         /\ is_monitoring' = TRUE
         /\ alert_queue' = <<>>
         /\ pc' = [pc EXCEPT ![w] = "open"]
         /\ alert_callback' = [alert_callback EXCEPT ![w] = acb]
         /\ audio_callback' = [audio_callback EXCEPT ![w] = aucb]
         /\ monitoring_thread' = w
    /\ start_result' = TRUE
    /\ alert_status' = "ACTIVE"
    /\ stopped' = [w \in Workers |->
                     IF stopped[w] = "stopped" THEN "restarted" ELSE stopped[w]]
    /\ UNCHANGED <<chunk, assess, hpc, consumer_vars, captured,
                   read_after_stop, did_put, consumer_hist, limit,
                   predict_vars, callback_hist, app_hist>>

\* Line 1090, up to the join of line 1092.
StopSetFlag ==
    /\ hpc = "idle"
    /\ is_monitoring' = FALSE
    /\ hpc' = IF monitoring_thread # 0 THEN "joining" ELSE "idle"
    /\ alert_status' = IF monitoring_thread # 0 THEN alert_status
                       ELSE "INACTIVE"
    /\ stopped' = [w \in Workers |-> IF Live(w) THEN "stopped" ELSE stopped[w]]
    /\ read_after_stop' = [w \in Workers |->
                             IF Live(w) /\ stopped[w] # "stopped"
                             THEN FALSE ELSE read_after_stop[w]]
    /\ UNCHANGED <<alert_queue, monitoring_thread, worker_vars, start_result,
                   consumer_vars, captured, did_put, consumer_hist, limit,
                   predict_vars, callback_hist, app_hist>>

\* Lines 1092-1093: join(timeout=2) returns when the thread has ended or
\* when the two seconds are over, whatever the worker is doing.
StopReturn ==
    /\ hpc = "joining"
    /\ hpc' = "idle"
    /\ alert_status' = "INACTIVE"
    /\ UNCHANGED <<classifier_vars, worker_vars, start_result, consumer_vars,
                   worker_hist, consumer_hist, limit, predict_vars, callback_hist, app_hist>>

(***************************************************************************)
(* get_alerts (1095-1103), one consumer thread per c                       *)
(***************************************************************************)
\* return alerts; in main.py the caller is check_alerts_loop
\* (main.py:1641-1644), which passes each alert to handle_voice_alert.
Return(c) ==
    /\ alert_counter' = IF limit.host.app
                        THEN handle_voice_alert(alert_counter, alerts[c])
                        ELSE alert_counter
    /\ cpc' = [cpc EXCEPT ![c] = "idle"]
    /\ returned' = returned \cup {alerts[c][i].chunk : i \in 1..Len(alerts[c])}
    /\ high' = [high EXCEPT ![c] = IF alerts[c] = <<>> THEN high[c]
                                   ELSE alerts[c][Len(alerts[c])].chunk]
    /\ quiet' = [quiet EXCEPT ![c] = TRUE]
    /\ polls' = [polls EXCEPT ![c] = polls[c] + 1]
    /\ alerts' = [alerts EXCEPT ![c] = <<>>]
    /\ UNCHANGED alert_queue

\* Line 1097.
GetAlertsCall(c) ==
    /\ cpc[c] = "idle"
    /\ polls[c] < limit.polls[c]
    /\ cpc' = [cpc EXCEPT ![c] = "test"]
    /\ alerts' = [alerts EXCEPT ![c] = <<>>]
    /\ UNCHANGED <<classifier_vars, worker_vars, host_vars, worker_hist,
                   consumer_hist, limit, predict_vars, callback_hist, app_hist>>

\* Line 1098: while not self.alert_queue.empty().
GetAlertsTest(c) ==
    /\ cpc[c] = "test"
    /\ IF alert_queue = <<>>
       THEN Return(c)
       ELSE /\ cpc' = [cpc EXCEPT ![c] = "get"]
            /\ UNCHANGED <<alerts, alert_queue, consumer_hist, alert_counter>>
    /\ UNCHANGED <<is_monitoring, monitoring_thread, worker_vars, host_vars,
                   worker_hist, limit, predict_vars, callback_hist, passed>>

\* Lines 1099-1102: get_nowait, or queue.Empty when another consumer or a
\* restart emptied the queue after the test.
GetAlertsGet(c) ==
    /\ cpc[c] = "get"
    /\ IF alert_queue = <<>>
       THEN Return(c)
       ELSE /\ alerts' = [alerts EXCEPT
                            ![c] = Append(alerts[c], QueueGetNowait(alert_queue)[1])]
            /\ alert_queue' = QueueGetNowait(alert_queue)[2]
            /\ cpc' = [cpc EXCEPT ![c] = "test"]
            /\ UNCHANGED <<consumer_hist, alert_counter>>
    /\ UNCHANGED <<is_monitoring, monitoring_thread, worker_vars, host_vars,
                   worker_hist, limit, predict_vars, callback_hist, passed>>

(***************************************************************************)
(* Specifications of the monitor.                                          *)
(***************************************************************************)
\* The callbacks the two callers of the repository pass:
\* main.py:1565 (alert_callback only), test_voice_module.py:115 (both).
Callers == {<<TRUE, FALSE>>, <<TRUE, TRUE>>}

Host ==
    \/ \E acb \in BOOLEAN, aucb \in BOOLEAN :
          start_real_time_monitoring(acb, aucb)
    \/ StopSetFlag
    \/ StopReturn

Worker ==
    \/ \E w \in Workers : OpenStream(w)
    \/ \E w \in Workers : LoopTest(w)
    \/ \E w \in Workers : ReadChunk(w)
    \/ \E w \in Workers : Classify(w)
    \/ \E w \in Workers : PutAlert(w)
    \/ \E w \in Workers : AlertCallback(w)
    \/ \E w \in Workers : AudioCallback(w)
    \/ \E w \in Workers : CleanUp(w)

Consumer ==
    \/ \E c \in Consumers : GetAlertsCall(c)
    \/ \E c \in Consumers : GetAlertsTest(c)
    \/ \E c \in Consumers : GetAlertsGet(c)

\* What can go wrong in the worker: the stream fails, the temporary WAV
\* file cannot be written, a callback raises.
Faults == {"stream", "file", "alert_callback", "audio_callback"}

\* What the environment of a run does.  The host is one of the callers
\* of the repository; consumer 1 polls up to MaxPolls times, the others
\* once, or nobody polls.  With polling, a chunk is a Threat of confidence
\* 0.61 or 0.59 and the only fault is a failing stream; without, every
\* fault can happen.
Environment(caller, polling) ==
    [starts |-> MaxStarts, chunks |-> MaxChunks,
     polls |-> [c \in Consumers |->
                  IF ~polling THEN 0 ELSE IF c = 1 THEN MaxPolls ELSE 1],
     callers |-> {caller},
     inputs |-> IF polling THEN {in \in ChunkInputs : in.rf_class = 2}
                ELSE ChunkInputs,
     faults |-> IF polling THEN {"stream"} ELSE Faults,
     host |-> [app |-> FALSE, alert_threats |-> TRUE,
               alert_offensive |-> TRUE, sensitivity |-> F06]]

\* What start_real_time_monitoring accepts: each callback given or None.
ApiCallers == BOOLEAN \X BOOLEAN

\* Spec: the host starts and halts the monitor freely; nobody polls.
Init ==
    /\ MonitorInit
    /\ limit \in {Environment(caller, FALSE) : caller \in ApiCallers}
    /\ pin = DefaultInput
    /\ pout = None
    /\ rule_out = None
    /\ feature_vector = None
    /\ ain = None
    /\ aout = None

Next == Host \/ Worker

Spec == Init /\ [][Next]_vars

\* SpecDrain: the same, with the consumers polling.
InitDrain ==
    /\ MonitorInit
    /\ limit \in {Environment(caller, TRUE) : caller \in Callers}
    /\ pin = DefaultInput
    /\ pout = None
    /\ rule_out = None
    /\ feature_vector = None
    /\ ain = None
    /\ aout = None

NextDrain == Host \/ Worker \/ Consumer

SpecDrain == InitDrain /\ [][NextDrain]_vars

\* SpecFair: the runs of Spec in which every worker thread keeps being
\* scheduled and every call it makes returns: the blocking stream.read
\* (while the stream still has a chunk), predict, the callbacks.  The host
\* starts the monitor once or up to MaxStarts times.
WorkerStep(w) ==
    \/ OpenStream(w)
    \/ LoopTest(w)
    \/ ReadChunk(w)
    \/ Classify(w)
    \/ PutAlert(w)
    \/ AlertCallback(w)
    \/ AudioCallback(w)
    \/ CleanUp(w)

InitFair ==
    /\ MonitorInit
    /\ limit \in {[Environment(caller, FALSE) EXCEPT
                      !.starts = n,
                      !.inputs = {in \in ChunkInputs : in.rf = "ok"}] :
                   caller \in Callers, n \in 1..MaxStarts}
    /\ pin = DefaultInput
    /\ pout = None
    /\ rule_out = None
    /\ feature_vector = None
    /\ ain = None
    /\ aout = None

SpecFair ==
    /\ InitFair
    /\ [][Next]_vars
    /\ \A w \in Workers : WF_vars(WorkerStep(w))

\* SpecHost: the alert system of main.py.  start_alert_system creates a
\* classifier and starts it once with alert_callback = handle_voice_alert
\* (main.py:1561-1567), and one thread runs check_alerts_loop; the check
\* boxes and the sensitivity slider are as the user left them.
HostSettings ==
    [app : {TRUE}, alert_threats : BOOLEAN, alert_offensive : {TRUE},
     sensitivity : {F06, F09}]

InitHost ==
    /\ MonitorInit
    /\ limit \in {[Environment(<<TRUE, FALSE>>, TRUE) EXCEPT
                      !.starts = 1,
                      !.polls = [c \in Consumers |->
                                   IF c = 1 THEN MaxPolls ELSE 0],
                      !.host = h] : h \in HostSettings}
    /\ pin = DefaultInput
    /\ pout = None
    /\ rule_out = None
    /\ feature_vector = None
    /\ ain = None
    /\ aout = None

NextHost ==
    \/ Host
    \/ \E w \in Workers : OpenStream(w)
    \/ \E w \in Workers : LoopTest(w)
    \/ \E w \in Workers : ReadChunk(w)
    \/ \E w \in Workers : Classify(w)
    \/ \E w \in Workers : PutAlert(w)
    \/ \E w \in Workers : AlertCallback(w)
    \/ \E w \in Workers : CleanUp(w)
    \/ Consumer

SpecHost == InitHost /\ [][NextHost]_vars

(***************************************************************************)
(* SpecPredict: one call of predict and one of _rule_based_prediction on   *)
(* an input drawn from PredictInputs.                                      *)
(***************************************************************************)
characteristics == {"stress_indicators", "aggression_indicators",
                    "volume_variation", "pitch_variation"}

\* The sixteen ways the four characteristics are low or high, and the
\* mapping that holds the first two only.
VoiceAnalyses == [characteristics -> {F00, F09}] \cup {ScenarioB}

Transcripts == {<<>>, <<"i", "will", "kill", "you">>,
                <<"send", "the", "payment", "or", "die">>,
                <<"you", "are", "stupid">>}

TextModels == {[raised |-> TRUE, scores |-> Scores("none", F01)],
               [raised |-> FALSE, scores |-> Scores("none", F01)],
               [raised |-> FALSE, scores |-> Scores("threat", F05)],
               [raised |-> FALSE, scores |-> Scores("insult", F05)]}

PredictInputs ==
    {[DefaultInput EXCEPT
        !.exists = x.exists, !.fast_mode = x.fast_mode,
        !.transcription = x.transcription,
        !.speech_recognizer = (x.heard # <<>>), !.heard = x.heard,
        !.tm = x.tm, !.scores_raise = x.scores_raise, !.audio = x.audio,
        !.rf = x.rf, !.rf_class = 2, !.rf_proba = F09,
        !.voice_analysis = x.voice_analysis] :
     x \in [exists : BOOLEAN, fast_mode : BOOLEAN,
            transcription : Transcripts,
            heard : {<<>>, <<"i", "will", "kill", "you">>},
            tm : TextModels, scores_raise : BOOLEAN,
            audio : {"ok", "raise"}, rf : {"none", "ok", "raise"},
            voice_analysis : VoiceAnalyses]}

\* Characteristics at, below and above the thresholds 0.5 and 0.7, and
\* mappings in which any of the four keys is missing.
CharacteristicValues == {F00, F05, F07, F09}

RuleInputs ==
    {[DefaultInput EXCEPT !.voice_analysis = va] :
        va \in [characteristics -> CharacteristicValues]
               \cup UNION {[keys -> {F09}] : keys \in SUBSET characteristics}}

\* Scenario A: a fast-mode call on a silent chunk, on a classifier built
\* without a saved model.  _initialize_rf_classifier has fitted the forest
\* and the scaler on random dummy rows (unseeded np.random), so on the
\* chunk's vector the forest answers any of the three classes with any
\* largest probability, or it raises (a vector with NaN entries, on a
\* scikit-learn that rejects them).  The characteristics of silence are 0.
DummyForestAnswers == {<<c, p>> : c \in {0, 1, 2}, p \in {F04, F07, F10}}

SilentAnalysis == [k \in {voice_keys[i] : i \in 1..Len(voice_keys)} |-> F00]

ScenarioA ==
    {[DefaultInput EXCEPT !.voice_analysis = SilentAnalysis, !.rf = "ok",
                          !.rf_class = a[1], !.rf_proba = a[2]] :
        a \in DummyForestAnswers}
    \cup {[DefaultInput EXCEPT !.voice_analysis = SilentAnalysis,
                               !.rf = "raise"]}

\* Feature mappings: which scalars are present, and for each of the three
\* arrays its length, or -1 when the key is missing.
array_keys == {"mfcc_mean", "mfcc_std", "emotional_features"}

ArrayLens == {-1, 0, 1, ArrayLength - 1, ArrayLength, MaxArrayLen}

ScalarKeySets ==
    {{}, {"duration", "pitch_mean"},
     {feature_keys[i] : i \in 1..Len(feature_keys)}
        \cup {"pitch_mean", "pitch_std", "tempo"}}

Features(keys, lens) ==
    [k \in keys \cup {a \in array_keys : lens[a] >= 0} |->
        IF k \in array_keys THEN [i \in 1..lens[k] |-> F05] ELSE F05]

AllCharacteristics ==
    [k \in {voice_keys[i] : i \in 1..Len(voice_keys)} |-> F09]

\* Calls that differ in the features and the characteristics only.
FeatureInputs ==
    {[DefaultInput EXCEPT !.features = f, !.voice_analysis = va] :
        f \in {Features(keys, lens) : keys \in ScalarKeySets,
                                      lens \in [array_keys -> ArrayLens]}
               \cup {get_default_features},
        va \in {Empty, ScenarioB, AllCharacteristics}}

\* Full-mode calls whose text classifier does not override: the transcript
\* is given, heard, or missing (no recognizer, or transcribe_audio failed);
\* the text model raises or finds nothing; the audio analysis raises or the
\* trained classifier answers; each external model is absent, returns
\* nothing, or returns scores.
FusionTranscripts == {<<"help", "the", "gun">>,
                      <<"gun", "knife", "help", "police">>}

TextSources ==
    {[transcription |-> t, speech_recognizer |-> FALSE, heard |-> <<>>] :
        t \in FusionTranscripts \cup {<<>>}}
    \cup {[transcription |-> <<>>, speech_recognizer |-> TRUE, heard |-> t] :
            t \in FusionTranscripts \cup {<<>>}}

AudioOutcomes == {[audio |-> "raise", rf_proba |-> F09],
                  [audio |-> "ok", rf_proba |-> F05],
                  [audio |-> "ok", rf_proba |-> F10]}

\* A model that is absent, or loaded and returning one of the mappings.
ModelOutcomes(mappings) ==
    {[loaded |-> FALSE, scores |-> Empty], [loaded |-> TRUE, scores |-> Empty]}
    \cup {[loaded |-> TRUE, scores |-> sc] : sc \in mappings}

EmotionScores ==
    {[k \in {"angry"} |-> F10], [k \in {"neutral"} |-> F10],
     [k \in {"angry", "fear", "happy"} |->
        IF k = "angry" THEN F05 ELSE IF k = "fear" THEN F03 ELSE F02]}

ToxicityScores ==
    {[k \in {"toxic"} |-> F10],
     [k \in {"toxic", "insult"} |-> IF k = "toxic" THEN F05 ELSE F02]}

SentimentScores == {[k \in {"negative"} |-> F10], [k \in {"positive"} |-> F09]}

FusionInputs ==
    {[DefaultInput EXCEPT
        !.fast_mode = FALSE, !.transcription = x.text.transcription,
        !.speech_recognizer = x.text.speech_recognizer,
        !.heard = x.text.heard, !.tm = x.tm,
        !.audio = x.audio.audio, !.rf = "ok", !.rf_class = 2,
        !.rf_proba = x.audio.rf_proba,
        !.emotion_classifier = x.emotion.loaded,
        !.emotion_scores = x.emotion.scores,
        !.toxicity_classifier = x.toxicity.loaded,
        !.toxicity_scores = x.toxicity.scores,
        !.sentiment_analyzer = x.sentiment.loaded,
        !.sentiment_scores = x.sentiment.scores] :
     x \in [text : TextSources,
            tm : {[raised |-> TRUE, scores |-> Scores("none", F01)],
                  [raised |-> FALSE, scores |-> Scores("none", F01)]},
            audio : AudioOutcomes,
            emotion : ModelOutcomes(EmotionScores),
            toxicity : ModelOutcomes(ToxicityScores),
            sentiment : ModelOutcomes(SentimentScores)]}

\* The call in which every source that is absent or fails in the call in
\* answers instead, with score 0 (the audio analysis, the emotion, toxicity
\* and sentiment models) or with scores below every threshold (the text
\* model).
Answering(in) ==
    [in EXCEPT
        !.audio = "ok",
        !.rf = IF in.audio = "raise" THEN "ok" ELSE @,
        !.rf_proba = IF in.audio = "raise" THEN F00 ELSE @,
        !.emotion_classifier = TRUE,
        !.emotion_scores = IF in.emotion_classifier /\ DOMAIN @ # {}
                           THEN @ ELSE [k \in {"angry"} |-> F00],
        !.toxicity_classifier = TRUE,
        !.toxicity_scores = IF in.toxicity_classifier /\ DOMAIN @ # {}
                            THEN @ ELSE [k \in {"toxic"} |-> F00],
        !.sentiment_analyzer = TRUE,
        !.sentiment_scores = IF in.sentiment_analyzer /\ DOMAIN @ # {}
                             THEN @ ELSE [k \in {"negative"} |-> F00],
        !.tm = IF @.raised THEN [raised |-> FALSE, scores |-> Scores("none", F01)]
               ELSE @]

InitPredict ==
    /\ MonitorInit
    /\ limit = Environment(<<TRUE, FALSE>>, FALSE)
    /\ \/ pin \in PredictInputs
       \/ pin \in FusionInputs
       \/ pin \in RuleInputs
       \/ pin \in ScenarioA
       \/ pin \in FeatureInputs
    /\ pout = None
    /\ rule_out = None
    /\ feature_vector = None
    /\ ain = None
    /\ aout = None

\* result = classifier.predict(audio_path, transcription, fast_mode)
Predict ==
    /\ pout = None
    /\ pout' = predict(pin)
    /\ UNCHANGED <<monitor_vars, limit, pin, rule_out, feature_vector,
                   analysis_vars>>

\* prediction, audio_score = self._rule_based_prediction(features, voice_analysis)
RuleBasedPrediction ==
    /\ rule_out = None
    /\ rule_out' = rule_based_prediction(Empty, pin.voice_analysis)
    /\ UNCHANGED <<monitor_vars, limit, pin, pout, feature_vector,
                   analysis_vars>>

\* feature_vector = self._create_feature_vector(features, voice_analysis)
CreateFeatureVector ==
    /\ feature_vector = None
    /\ feature_vector' = create_feature_vector(pin.features, pin.voice_analysis)
    /\ UNCHANGED <<monitor_vars, limit, pin, pout, rule_out, analysis_vars>>

NextPredict == Predict \/ RuleBasedPrediction \/ CreateFeatureVector

SpecPredict == InitPredict /\ [][NextPredict]_vars

(***************************************************************************)
(* SpecAnalysis: one call of one of the analysis functions.                *)
(***************************************************************************)
\* Words of the three lists (poison and overdose are listed twice, account
\* is matched by two scam patterns), and a word of none.
Vocabulary == {"gun", "knife", "poison", "help", "police", "overdose",
               "prize", "bank", "account", "hello"}

Texts == UNION {[1..n -> Vocabulary] : n \in 0..MaxWords}

KeywordCalls == {[op |-> "analyze_transcription", text |-> t] : t \in Texts}

\* score = classifier._analyze_transcription(text)
AnalyzeTranscription ==
    /\ aout = None
    /\ ain.op = "analyze_transcription"
    /\ aout' = analyze_transcription(ain.text)
    /\ UNCHANGED <<monitor_vars, limit, pin, pout, rule_out, feature_vector,
                   ain>>

\* Calls of extract_audio_features: the file loads or not, and any set of
\* the steps fails.
FeatureCalls ==
    {[op |-> "extract_audio_features", load_fails |-> l, fails |-> f] :
        l \in BOOLEAN, f \in SUBSET DOMAIN step_keys}

\* features = self.extract_audio_features(audio_path)
ExtractAudioFeatures ==
    /\ aout = None
    /\ ain.op = "extract_audio_features"
    /\ aout' = extract_audio_features(ain.load_fails, ain.fails)
    /\ UNCHANGED <<monitor_vars, limit, pin, pout, rule_out, feature_vector,
                   ain>>

\* Calls of analyze_voice_characteristics on a 3-second chunk: the onsets
\* detected; <<std, mean>> of the RMS frames; <<count, std, mean>> of the
\* pitch values; jitter and shimmer (ratios), spectral centroid and
\* bandwidth (Hz), loudness (RMS) and tempo (BPM), all in thousandths;
\* no analysis fails, one fails, or the load fails.
CharacteristicCalls ==
    {[op |-> "analyze_voice_characteristics", duration |-> 3,
      load_fails |-> x.load_fails, fails |-> x.fails, onsets |-> x.onsets,
      volume |-> x.volume, pitch |-> x.pitch, jitter |-> x.jitter,
      shimmer |-> 500, spectral_centroid |-> x.spectral_centroid,
      loudness |-> 100, spectral_bandwidth |-> x.spectral_bandwidth,
      tempo |-> x.tempo] :
     x \in [load_fails : BOOLEAN,
            fails : {{}} \cup {{voice_keys[i]} : i \in 1..Len(voice_keys)},
            onsets : 0..MaxOnsets,
            volume : {<<0, 0>>, <<50, 100>>, <<300, 100>>},
            pitch : {<<0, 0, 0>>, <<5, 20000, 200000>>, <<5, 900000, 600000>>},
            jitter : {0, 2000},
            spectral_centroid : {0, 1500000, 8000000},
            spectral_bandwidth : {0, 3500000},
            tempo : {0, 120000}]}

\* voice_analysis = self.analyze_voice_characteristics(audio_path)
AnalyzeVoiceCharacteristics ==
    /\ aout = None
    /\ ain.op = "analyze_voice_characteristics"
    /\ aout' = analyze_voice_characteristics(ain)
    /\ UNCHANGED <<monitor_vars, limit, pin, pout, rule_out, feature_vector,
                   ain>>

InitAnalysis ==
    /\ MonitorInit
    /\ limit = Environment(<<TRUE, FALSE>>, FALSE)
    /\ pin = DefaultInput
    /\ pout = None
    /\ rule_out = None
    /\ feature_vector = None
    /\ \/ ain \in KeywordCalls
       \/ ain \in FeatureCalls
       \/ ain \in CharacteristicCalls
    /\ aout = None

NextAnalysis ==
    \/ AnalyzeTranscription
    \/ ExtractAudioFeatures
    \/ AnalyzeVoiceCharacteristics

SpecAnalysis == InitAnalysis /\ [][NextAnalysis]_vars

(***************************************************************************)
(* Properties.                                                             *)
(***************************************************************************)
\* C1 (SpecPredict).  Override gate: a call of predict in full mode on an
\* existing file with a non-empty transcript returns (Threat, 1.0) when
\* TextThreatClassifier.predict returns Threat and (Offensive, 0.8) when it
\* returns Offensive, whatever the audio analysis, the trained classifier,
\* the characteristics and predict_scores do.
C1_OverrideGate ==
    (pout # None /\ pin.exists /\ ~pin.fast_mode /\ Transcription(pin) # <<>>
        /\ ~TextPredict(Transcription(pin), pin.tm).raised)
    => LET text_label == TextPredict(Transcription(pin), pin.tm).val[1]
       IN  /\ text_label = "Threat" => (pout[1] = "Threat" /\ pout[3] = F10)
           /\ text_label = "Offensive"
                 => (pout[1] = "Offensive" /\ pout[3] = F08)

\* The transcript "i will kill you" was classified while predict_scores
\* and the audio analysis both failed.
C1_Witness ==
    /\ pout = <<"Threat", "warn", F10>>
    /\ pin.exists /\ ~pin.fast_mode
    /\ pin.transcription = <<"i", "will", "kill", "you">>
    /\ pin.scores_raise /\ pin.audio = "raise"

\* C2 as stated (SpecPredict).  Scenario B: stress 0.9, aggression 0.9,
\* volume and pitch variation 0 give the rule-based score 0.7 and the
\* label Threat.
C2_ScenarioB_Threat ==
    (rule_out # None
        /\ Get(pin.voice_analysis, "stress_indicators") = F09
        /\ Get(pin.voice_analysis, "aggression_indicators") = F09
        /\ Get(pin.voice_analysis, "volume_variation") = F00
        /\ Get(pin.voice_analysis, "pitch_variation") = F00)
    => /\ rule_out[2] = F07
       /\ map_prediction_to_label(rule_out[1])[1] = "Threat"

\* C2 as the code has it (SpecPredict).  Scenario B gives the rule-based
\* score 0.7 and, 0.7 not being greater than 0.7, the label Offensive; in
\* fast mode without a usable trained classifier predict returns
\* (Offensive, 0.7).
C2_ScenarioB_Offensive ==
    (/\ Get(pin.voice_analysis, "stress_indicators") = F09
     /\ Get(pin.voice_analysis, "aggression_indicators") = F09
     /\ Get(pin.voice_analysis, "volume_variation") = F00
     /\ Get(pin.voice_analysis, "pitch_variation") = F00)
    => /\ rule_out # None
          => /\ rule_out[2] = F07
             /\ map_prediction_to_label(rule_out[1])[1] = "Offensive"
       /\ (pout # None /\ pin.exists /\ pin.fast_mode /\ pin.audio = "ok"
              /\ pin.rf # "ok")
          => pout = <<"Offensive", "excl", F07>>

C2_Witness ==
    /\ pin.voice_analysis = ScenarioB
    /\ rule_out = <<1, F07>>
    /\ pout = <<"Offensive", "excl", F07>>

\* C3 (Spec).  Alert emission threshold: in every iteration of the worker
\* the alert of the chunk is put on alert_queue if and only if the
\* assessment has label Offensive or Threat and confidence > 0.6; every
\* alert in the queue has such a label and confidence.
C3_AlertThreshold ==
    /\ \A i \in 1..Len(alert_queue) :
          /\ alert_queue[i].label \in {"Offensive", "Threat"}
          /\ FGt(alert_queue[i].confidence, F06)
    /\ \A w \in Workers :
          /\ pc[w] = "put"
                => (assess[w][1] \in {"Offensive", "Threat"}
                    /\ FGt(assess[w][3], F06))
          /\ pc[w] \in {"alert_cb", "audio_cb", "cleanup"}
                => (did_put[w] <=> (assess[w][1] \in {"Offensive", "Threat"}
                                    /\ FGt(assess[w][3], F06)))

\* A Threat of confidence 0.61 is in the queue and the iteration of a
\* Threat of confidence 0.59 ends without a put.
C3_Witness ==
    /\ alert_queue # <<>>
    /\ alert_queue[1].label = "Threat" /\ alert_queue[1].confidence = F061
    /\ \E w \in Workers :
          /\ pc[w] = "cleanup" /\ ~did_put[w]
          /\ assess[w] = <<"Threat", "warn", F059>>

\* C4 as stated (Spec).  A start while the monitor is Monitoring creates
\* no second worker: at most one worker thread is in the capture/classify
\* loop.
C4_SingleWorker ==
    Cardinality({w \in Workers :
                   pc[w] \in {"check", "read", "predict", "put", "alert_cb",
                              "audio_cb", "cleanup"}}) <= 1

\* C5 as stated (Spec).  Once stop has cleared is_monitoring (and start was
\* not called again) the worker begins no stream.read.
C5_NoReadAfterStop ==
    [][\A w \in Workers :
          stopped[w] = "stopped" => ~(pc[w] = "read" /\ pc'[w] = "predict")]_vars

\* C5 as the code has it (Spec).  Once stop has cleared is_monitoring (and
\* start was not called again): every loop test of the worker leaves the
\* loop; the worker completes at most one stream.read, the one whose loop
\* test came before the stop; and the iteration in flight is not aborted:
\* the worker leaves the loop at the loop test only, its chunk is assessed
\* and the alert of an assessment over the threshold is put, complete.
C5_Cancellation ==
    [][\A w \in Workers :
          stopped[w] = "stopped" =>
            /\ pc[w] = "check" => pc'[w] \in {"check", "done"}
            /\ (pc[w] = "read" /\ pc'[w] = "predict") => ~read_after_stop[w]
            /\ pc'[w] = "done" => pc[w] \in {"check", "done"}
            /\ pc'[w] = "failed" => pc[w] \in {"open", "read", "failed"}
            /\ (pc[w] = "predict" /\ pc'[w] # "predict")
                  => /\ assess'[w] # None
                     /\ (pc'[w] = "put") <=>
                           (assess'[w][1] \in {"Offensive", "Threat"}
                            /\ FGt(assess'[w][3], F06))
            /\ (pc[w] = "put" /\ pc'[w] # "put")
                  => alert_queue' =
                        Append(alert_queue,
                               [label |-> assess[w][1],
                                confidence |-> assess[w][3],
                                chunk |-> chunk[w], emoji |-> assess[w][2]])
      ]_vars

\* A worker read a chunk after the stop and is about to put its alert.
C5_Witness ==
    \E w \in Workers :
        stopped[w] = "stopped" /\ read_after_stop[w] /\ pc[w] = "put"

\* C6 as stated (Spec).  A worker that was running when stop was called
\* leaves its loop at its next loop test, also when start is called again.
C6_StoppedWorkerTerminates ==
    [][\A w \in Workers :
          stopped[w] \in {"stopped", "restarted"}
             => ~(pc[w] = "check" /\ pc'[w] = "read")]_vars

\* C7 (SpecDrain).  Drain semantics: an alert is in the queue, or in the
\* list one get_alerts call is building, or was returned by one call, and
\* never in two of these places nor twice in one; a get_alerts call that
\* follows the consumer's previous one with no put in between holds no
\* alert.
C7_Drain ==
    LET ChunksOf(q) == {q[i].chunk : i \in 1..Len(q)}
        NoRepeat(q) == \A i, j \in 1..Len(q) : q[i].chunk = q[j].chunk => i = j
    IN  /\ NoRepeat(alert_queue)
        /\ ChunksOf(alert_queue) \cap returned = {}
        /\ \A c \in Consumers :
              /\ NoRepeat(alerts[c])
              /\ ChunksOf(alerts[c]) \cap ChunksOf(alert_queue) = {}
              /\ ChunksOf(alerts[c]) \cap returned = {}
              /\ \A d \in Consumers \ {c} :
                    ChunksOf(alerts[c]) \cap ChunksOf(alerts[d]) = {}
              /\ quiet[c] => (alerts[c] = <<>> /\ alert_queue = <<>>)

\* Consumer 1 returned an alert and is in its next call with no put in
\* between, while consumer 2 is in a call of its own and holds an alert.
C7_Witness ==
    /\ polls[1] = 1 /\ returned # {} /\ quiet[1] /\ cpc[1] = "test"
    /\ cpc[2] = "test" /\ Len(alerts[2]) = 1

\* C8 as stated (Spec).  The queue is bounded: the undrained alerts stay
\* below the number of chunks of a run.
C8_Bounded == Len(alert_queue) < MaxChunks

\* C8 as the code has it (Spec).  The queue is unbounded and drops nothing:
\* a put appends the alert to all the queued ones; the queue changes
\* otherwise only when get_alerts takes its head or when
\* start_real_time_monitoring replaces it by an empty one.
C8_Unbounded ==
    [][\/ alert_queue' = alert_queue
       \/ \E w \in Workers :
             /\ pc[w] = "put"
             /\ alert_queue' = Append(alert_queue, AlertData(w))
       \/ /\ alert_queue # <<>>
          /\ alert_queue' = Tail(alert_queue)
          /\ \E c \in Consumers : cpc[c] = "get"
       \/ /\ alert_queue' = <<>>
          /\ monitoring_thread' # monitoring_thread
      ]_vars

\* Every chunk of the run has its alert in the queue.
C8_Witness == Len(alert_queue) = MaxChunks /\ captured = MaxChunks

\* C9 as stated (Spec).  Alerts are queued in the capture order of their
\* chunks.
C9_CaptureOrder ==
    \A i, j \in 1..Len(alert_queue) :
        i < j => alert_queue[i].chunk < alert_queue[j].chunk

\* C10 as stated (Spec).  When the worker of the session fails to open the
\* stream or to read a chunk, the host does not go on showing ACTIVE.
C10_CaptureFailureReported ==
    \A w \in Workers :
        (pc[w] = "failed" /\ monitoring_thread = w /\ hpc = "idle")
            => (alert_status # "ACTIVE" \/ start_result # TRUE)

\* C11 (SpecPredict).  predict never raises: in fast and in full mode,
\* whether the file is missing, the audio analysis fails, the trained
\* classifier is absent or fails, any of the external models is absent or
\* returns nothing, the text model or predict_scores raises, the call
\* returns a triple of a label, an emoji and a confidence; the triple is
\* (Safe, 0.5) when the file is missing and when the audio analysis of
\* fast mode raises past the inner handlers.
C11_NeverRaises ==
    pout # None =>
        /\ Len(pout) = 3
        /\ pout[1] \in {"Safe", "Offensive", "Threat"}
        /\ pout[2] \in {"ok", "excl", "warn"}
        /\ ~pin.exists => pout = <<"Safe", "ok", F05>>
        /\ (pin.exists /\ pin.fast_mode /\ pin.audio = "raise")
              => pout = <<"Safe", "ok", F05>>

\* predict has returned from a fast-mode call whose audio analysis raised.
C11_Witness ==
    /\ pout # None
    /\ pin.exists /\ pin.fast_mode /\ pin.audio = "raise"

\* C12 (SpecPredict).  Output range: in fast mode (trained classifier or
\* rule-based fallback) and in full mode (override or fusion), for signal
\* scores in [0, 1] with emotion probabilities summing to at most 1, the
\* label predict returns is Safe, Offensive or Threat and the confidence
\* is in [0, 1]; so is the score of _rule_based_prediction.
C12_OutputRange ==
    /\ pout # None =>
          /\ pout[1] \in {"Safe", "Offensive", "Threat"}
          /\ FGe(pout[3], F00) /\ FLe(pout[3], F10)
    /\ rule_out # None =>
          /\ rule_out[1] \in {0, 1, 2}
          /\ FGe(rule_out[2], F00) /\ FLe(rule_out[2], F10)

\* The fusion of full mode returned 1.0: every signal at its maximum.
C12_Witness ==
    /\ pout # None /\ pin.exists /\ ~pin.fast_mode
    /\ TextLabel(pin, Transcription(pin))[1] = "Safe"
    /\ pin.audio = "ok" /\ pin.rf_proba = F10
    /\ pin.emotion_classifier /\ pin.toxicity_classifier
    /\ pin.sentiment_analyzer
    /\ pout[3] = F10

\* C13 as stated (SpecPredict).  When the override does not fire in full
\* mode and every source answers, the final score is 0.3 * audio
\* + 0.3 * lexical + 0.2 * emotion + 0.1 * toxicity + 0.1 * sentiment, the
\* lexical score being the keyword score of the transcript (scores in
\* thousandths, the sum in units of 10^-5).
C13_FusionWeights_Keyword ==
    (/\ pout # None /\ pin.exists /\ ~pin.fast_mode
     /\ TextLabel(pin, Transcription(pin))[1] = "Safe"
     /\ Transcription(pin) # <<>>
     /\ pin.audio = "ok" /\ pin.rf = "ok"
     /\ pin.emotion_classifier /\ DOMAIN pin.emotion_scores # {}
     /\ pin.toxicity_classifier /\ DOMAIN pin.toxicity_scores # {}
     /\ pin.sentiment_analyzer /\ DOMAIN pin.sentiment_scores # {})
    => LET audio     == pin.rf_proba[1]
           keyword   == analyze_transcription(Transcription(pin))[1]
           emotion   == Get(pin.emotion_scores, "angry")[1]
                        + Get(pin.emotion_scores, "fear")[1]
                        + Get(pin.emotion_scores, "disgust")[1]
                        + Get(pin.emotion_scores, "sad")[1]
           toxicity  == MaxValue(pin.toxicity_scores)[1]
           sentiment == Get(pin.sentiment_scores, "negative")[1]
       IN  pout[3][1] * 100 = 30 * audio + 30 * keyword + 20 * emotion
                                + 10 * toxicity + 10 * sentiment

\* C13, amended (SpecPredict).  When the override does not fire in full mode
\* and every source answers, the final score is 0.3 * audio + 0.3 * text
\* + 0.2 * emotion + 0.1 * toxicity + 0.1 * sentiment, where the text score
\* is 0.4 * keyword + 0.3 * toxicity + 0.3 * sentiment: the keyword score of
\* the transcript enters with 0.12, toxicity and sentiment with 0.19 each.
C13_FusionWeights_Text ==
    (/\ pout # None /\ pin.exists /\ ~pin.fast_mode
     /\ TextLabel(pin, Transcription(pin))[1] = "Safe"
     /\ Transcription(pin) # <<>>
     /\ pin.audio = "ok" /\ pin.rf = "ok"
     /\ pin.emotion_classifier /\ DOMAIN pin.emotion_scores # {}
     /\ pin.toxicity_classifier /\ DOMAIN pin.toxicity_scores # {}
     /\ pin.sentiment_analyzer /\ DOMAIN pin.sentiment_scores # {})
    => LET audio     == pin.rf_proba[1]
           keyword   == analyze_transcription(Transcription(pin))[1]
           emotion   == Get(pin.emotion_scores, "angry")[1]
                        + Get(pin.emotion_scores, "fear")[1]
                        + Get(pin.emotion_scores, "disgust")[1]
                        + Get(pin.emotion_scores, "sad")[1]
           toxicity  == MaxValue(pin.toxicity_scores)[1]
           sentiment == Get(pin.sentiment_scores, "negative")[1]
           text      == 4 * keyword + 3 * toxicity + 3 * sentiment
       IN  pout[3][1] * 100 = 30 * audio + 3 * text + 20 * emotion
                                + 10 * toxicity + 10 * sentiment

\* The fusion returned a score for a transcript with keyword score 0.5,
\* toxicity 0.5, sentiment 1.0, emotion 0.8 and audio score 0.5.
C13_Witness ==
    /\ pout # None /\ pin.exists /\ ~pin.fast_mode
    /\ TextLabel(pin, Transcription(pin))[1] = "Safe"
    /\ Transcription(pin) = <<"help", "the", "gun">>
    /\ pin.audio = "ok" /\ pin.rf = "ok" /\ pin.rf_proba = F05
    /\ pin.emotion_classifier /\ Get(pin.emotion_scores, "fear") = F03
    /\ pin.toxicity_classifier /\ Get(pin.toxicity_scores, "insult") = F02
    /\ pin.sentiment_analyzer /\ Get(pin.sentiment_scores, "negative") = F10
    /\ pout[3][1] = 655

\* C14 (SpecPredict).  Thresholds: _rule_based_prediction and
\* _get_prediction_from_score both map a score above 0.7 to Threat (2), a
\* score above 0.4 and at most 0.7 to Offensive (1), a score of at most 0.4
\* to Safe (0); the class the rule-based fallback returns with its score is
\* the class _get_prediction_from_score gives that score, and the label of
\* a fusion result is the label of these thresholds on the returned score.
C14_Thresholds ==
    /\ rule_out # None =>
          /\ FGt(rule_out[2], F07) => rule_out[1] = 2
          /\ (FGt(rule_out[2], F04) /\ FLe(rule_out[2], F07)) => rule_out[1] = 1
          /\ FLe(rule_out[2], F04) => rule_out[1] = 0
          /\ get_prediction_from_score(rule_out[2]) = rule_out[1]
    /\ (/\ pout # None /\ pin.exists /\ ~pin.fast_mode
        /\ TextLabel(pin, Transcription(pin))[1] = "Safe") =>
          /\ FGt(pout[3], F07) => pout[1] = "Threat"
          /\ (FGt(pout[3], F04) /\ FLe(pout[3], F07)) => pout[1] = "Offensive"
          /\ FLe(pout[3], F04) => pout[1] = "Safe"

\* The fusion returned exactly 0.7, labelled Offensive, and the rule-based
\* function ran on the same call's characteristics.
C14_Witness ==
    /\ pout # None /\ pin.exists /\ ~pin.fast_mode
    /\ TextLabel(pin, Transcription(pin))[1] = "Safe"
    /\ pout[3] = F07 /\ pout[1] = "Offensive"
    /\ rule_out # None

\* C15 (SpecPredict).  Graceful degradation in full mode: when the audio
\* analysis raises, or the emotion, toxicity or sentiment model is absent or
\* returns nothing, or the text classifier raises, predict returns what it
\* returns when that source answers with score 0 (the text classifier with
\* Safe); when there is no transcript (none given and the speech recognizer
\* absent or failing) the score is 0.3 * audio + 0.2 * emotion alone.
C15_Degradation ==
    (pout # None /\ pin.exists /\ ~pin.fast_mode) =>
        /\ pout = predict(Answering(pin))
        /\ (Transcription(pin) = <<>>) =>
              pout[3][1] * 100 =
                  30 * AudioPrediction(Answering(pin))[2][1]
                  + 20 * (Get(Answering(pin).emotion_scores, "angry")[1]
                          + Get(Answering(pin).emotion_scores, "fear")[1]
                          + Get(Answering(pin).emotion_scores, "disgust")[1]
                          + Get(Answering(pin).emotion_scores, "sad")[1])

\* The audio analysis raised, the emotion model is absent and the text
\* classifier raised; toxicity 1.0 and sentiment 1.0 of the transcript
\* "help the gun" (keyword score 0.5) give 0.44, Offensive.
C15_Witness ==
    /\ pout # None /\ pin.exists /\ ~pin.fast_mode
    /\ pin.audio = "raise" /\ ~pin.emotion_classifier /\ pin.tm.raised
    /\ Transcription(pin) = <<"help", "the", "gun">>
    /\ pin.toxicity_classifier /\ pin.sentiment_analyzer
    /\ pout[1] = "Offensive" /\ pout[3][1] = 440

\* C16 (SpecPredict).  The score _rule_based_prediction returns is the sum
\* of 0.3 if stress_indicators > 0.7, 0.4 if aggression_indicators > 0.7,
\* 0.2 if volume_variation > 0.5 and 0.1 if pitch_variation > 0.5, a
\* missing key counting as 0: the double returned is the one next to that
\* sum (thousandths equal, remainder within 2^13 units of 2^-56 / 1000).
C16_RuleScore ==
    rule_out # None =>
        LET va == pin.voice_analysis
            Term(key, threshold, weight) ==
                IF key \in DOMAIN va /\ FGt(va[key], threshold)
                THEN weight ELSE 0
        IN  /\ rule_out[2][1] = Term("stress_indicators", F07, 300)
                                 + Term("aggression_indicators", F07, 400)
                                 + Term("volume_variation", F05, 200)
                                 + Term("pitch_variation", F05, 100)
            /\ rule_out[2][2] \in -8192..8192

\* The rule-based function returned 0.6 for stress 0.7 (not above the
\* threshold), aggression 0.9, volume variation 0.9 and pitch variation 0.5.
C16_Witness ==
    /\ rule_out # None
    /\ DOMAIN pin.voice_analysis = characteristics
    /\ pin.voice_analysis["stress_indicators"] = F07
    /\ pin.voice_analysis["aggression_indicators"] = F09
    /\ pin.voice_analysis["volume_variation"] = F09
    /\ pin.voice_analysis["pitch_variation"] = F05
    /\ rule_out[2][1] = 600

\* C17 (SpecPredict).  Monotonicity of the rule-based fallback: for the
\* mapping of the call and any mapping that agrees with it on
\* volume_variation and pitch_variation and whose stress_indicators and
\* aggression_indicators are each at least those of the call, the score of
\* the second is at least the score returned and its class (0 Safe,
\* 1 Offensive, 2 Threat) is at least the class returned.
C17_Monotone ==
    rule_out # None =>
        \A s, a \in CharacteristicValues :
            (/\ FGe(s, Get(pin.voice_analysis, "stress_indicators"))
             /\ FGe(a, Get(pin.voice_analysis, "aggression_indicators")))
            => LET second ==
                     [k \in DOMAIN pin.voice_analysis
                            \cup {"stress_indicators", "aggression_indicators"} |->
                         IF k = "stress_indicators" THEN s
                         ELSE IF k = "aggression_indicators" THEN a
                         ELSE pin.voice_analysis[k]]
                   higher == rule_based_prediction(Empty, second)
               IN  /\ FGe(higher[2], rule_out[2])
                   /\ higher[1] >= rule_out[1]

\* The rule-based function returned Safe for a mapping with stress 0.7 and
\* no aggression key, and raising both to 0.9 gives Offensive.
C17_Witness ==
    /\ rule_out # None /\ rule_out[1] = 0
    /\ Get(pin.voice_analysis, "stress_indicators") = F07
    /\ Get(pin.voice_analysis, "aggression_indicators") = F00
    /\ rule_based_prediction(Empty,
           [k \in {"stress_indicators", "aggression_indicators"} |-> F09])[1] = 1

\* C19 (SpecPredict).  Scenario A: for a silent chunk, predict in fast mode
\* on a classifier constructed without a saved model returns the label
\* Safe, and the score returned is the score of the rule-based fallback and
\* at most 0.4.
C19_ScenarioA_Safe ==
    (pout # None /\ pin \in ScenarioA) =>
        /\ pout[1] = "Safe"
        /\ pout[3] = rule_based_prediction(pin.features, pin.voice_analysis)[2]
        /\ FLe(pout[3], F04)

\* C20 (SpecPredict).  The feature vector has length 60 for every input:
\* whatever the lengths of mfcc_mean, mfcc_std and emotional_features
\* (shorter than 13, exactly 13, longer), whichever keys of the features
\* and of the characteristics are missing, and for the default features.
C20_FixedLength ==
    feature_vector # None => Len(feature_vector) = 60

\* A vector was built from features whose three arrays are longer than 13,
\* empty and missing, with no characteristics.
C20_Witness ==
    /\ feature_vector # None
    /\ "mfcc_std" \in DOMAIN pin.features
    /\ "mfcc_mean" \in DOMAIN pin.features
    /\ Len(pin.features["mfcc_mean"]) > ArrayLength
    /\ Len(pin.features["mfcc_std"]) = 0
    /\ "emotional_features" \notin DOMAIN pin.features
    /\ pin.voice_analysis = Empty


\* C29 (SpecPredict).  Keyword precedence of TextThreatClassifier.predict,
\* seen through the override of full mode: a transcript with a money word
\* is Offensive (0.8) even when it also holds a threat keyword; a transcript
\* with a threat keyword and no money word is Threat (1.0); in both cases
\* whatever the transformer model would do, raising included.
C29_KeywordPrecedence ==
    (pout # None /\ pin.exists /\ ~pin.fast_mode /\ Transcription(pin) # <<>>)
    => LET words == {Transcription(pin)[i] : i \in 1..Len(Transcription(pin))}
       IN  /\ words \cap money_keywords # {}
                => pout = <<"Offensive", "excl", F08>>
           /\ (words \cap money_keywords = {}
                /\ words \cap text_threat_keywords # {})
                => pout = <<"Threat", "warn", F10>>

\* Full mode returned Offensive for "send the payment or die", which holds
\* a money word and a threat keyword, with a text model that would raise.
C29_Witness ==
    /\ pout # None /\ pin.exists /\ ~pin.fast_mode
    /\ Transcription(pin) = <<"send", "the", "payment", "or", "die">>
    /\ pin.tm.raised
    /\ pout[1] = "Offensive"


\* C25 (SpecAnalysis).  Keyword score: with t, d, s the numbers of distinct
\* threat, distress and scam patterns that match the transcript, the score
\* _analyze_transcription returns is min(1.0, min(0.3 t, 0.6)
\* + min(0.2 d, 0.4) + min(0.25 s, 0.5)) (in thousandths), 0 for an empty
\* transcript or one without a match, and in [0, 1].
C25_KeywordScore ==
    (aout # None /\ ain.op = "analyze_transcription") =>
        LET Distinct(patterns) ==
                Cardinality({patterns[i] : i \in
                    {j \in 1..Len(patterns) : Matches(patterns[j], ain.text)}})
            Min(a, b) == IF a < b THEN a ELSE b
            t == Distinct(threat_keywords)
            d == Distinct(distress_indicators)
            s == Distinct(scam_indicators)
        IN  /\ aout[1] = Min(1000, Min(300 * t, 600) + Min(200 * d, 400)
                                     + Min(250 * s, 500))
            /\ FGe(aout, F00) /\ FLe(aout, F10)


\* C21 as stated (SpecAnalysis).  When steps of extract_audio_features fail
\* in a file that loads, the keys of the failing steps hold their defaults
\* and every other key holds its computed value; all 20 keys are returned.
C21_Isolation_Any ==
    (aout # None /\ ain.op = "extract_audio_features" /\ ~ain.load_fails) =>
        /\ Cardinality(DOMAIN aout) = 20
        /\ \A s \in DOMAIN step_keys : \A key \in step_keys[s] :
              aout[key] = IF s \in ain.fails THEN get_default_features[key]
                          ELSE Computed(key)

\* C21, amended (SpecAnalysis).  The call returns all 20 keys whatever
\* fails.  When the file loads and duration, RMS energy and zero-crossing
\* rate are computed, the keys of every failing step (spectral, MFCC,
\* pitch, tempo, harmonic/percussive, voice activity, loudness, jitter,
\* shimmer, emotional descriptor) hold their defaults and every other key
\* its computed value; when the load or one of those three steps fails,
\* every key holds its default.
C21_Isolation_Handled ==
    (aout # None /\ ain.op = "extract_audio_features") =>
        /\ Cardinality(DOMAIN aout) = 20
        /\ (~ain.load_fails /\ ain.fails \cap basic_steps = {}) =>
              \A s \in DOMAIN step_keys : \A key \in step_keys[s] :
                  aout[key] = IF s \in ain.fails
                              THEN get_default_features[key]
                              ELSE Computed(key)
        /\ (ain.load_fails \/ ain.fails \cap basic_steps # {}) =>
              \A key \in DOMAIN aout : aout[key] = get_default_features[key]

\* The tempo and the MFCC steps failed in a file that loaded: tempo is 120,
\* the MFCC means are zeros, the pitch mean is the computed value.
C21_Witness ==
    /\ aout # None /\ ain.op = "extract_audio_features"
    /\ ~ain.load_fails /\ ain.fails = {"tempo", "mfcc"}
    /\ aout["tempo"] = <<120000, 0>>
    /\ aout["mfcc_mean"] = Zeros(ArrayLength)
    /\ aout["pitch_mean"] = F09


\* C22 as stated (SpecAnalysis).  Every value of the mapping returned by
\* analyze_voice_characteristics lies in [0, 1].
C22_AllInUnitInterval ==
    (aout # None /\ ain.op = "analyze_voice_characteristics") =>
        \A k \in DOMAIN aout : aout[k][1] >= 0 /\ aout[k][1] <= 1000

\* C22, amended (SpecAnalysis).  For non-negative measures every value of
\* the mapping is non-negative, and stress_indicators and
\* aggression_indicators lie in [0, 1]; speaking_rate is the estimate in
\* words per minute (14 per onset of a 3-second chunk, 0 below two onsets)
\* and is not bounded by 1.
C22_ClampedIndicators ==
    (aout # None /\ ain.op = "analyze_voice_characteristics") =>
        /\ \A k \in DOMAIN aout : aout[k][1] >= 0
        /\ \A k \in DOMAIN aout \cap {"stress_indicators",
                                        "aggression_indicators"} :
              aout[k][1] <= 1000
        /\ ("speaking_rate" \in DOMAIN aout
            /\ "speaking_rate" \notin ain.fails) =>
              aout["speaking_rate"][1] =
                  IF ain.onsets < 2 THEN 0 ELSE 14000 * ain.onsets

\* A chunk with three onsets and a spectral centroid of 8000 Hz: the
\* speaking rate is 42 words per minute, the stress indicator is clamped
\* to 1.0.
C22_Witness ==
    /\ aout # None /\ ain.op = "analyze_voice_characteristics"
    /\ ~ain.load_fails /\ ain.fails = {}
    /\ ain.onsets = 3 /\ ain.spectral_centroid = 8000000
    /\ aout["speaking_rate"] = <<42000, 0>>
    /\ aout["stress_indicators"] = <<1000, 0>>


\* C24 (Spec).  An alert the worker creates is first put on alert_queue;
\* then, if an alert_callback was given, the callback is invoked exactly
\* once, with that alert, by the worker, before the iteration is cleaned up
\* and the next chunk is captured; without an alert_callback the alert is
\* put and no callback is invoked.
C24_PutThenCallback ==
    \A w \in Workers :
        /\ pc[w] = "alert_cb" => did_put[w] /\ called[w] = <<>>
        /\ called[w] # <<>> =>
              did_put[w] /\ alert_callback[w] /\ called[w] = <<AlertData(w)>>
        /\ (pc[w] \in {"audio_cb", "cleanup"}
            /\ AlertCondition(assess[w][1], assess[w][3])) =>
              /\ did_put[w]
              /\ called[w] = IF alert_callback[w] THEN <<AlertData(w)>>
                             ELSE <<>>
        /\ pc[w] \in {"check", "read", "predict", "put"} => called[w] = <<>>

\* The worker has put the alert of its chunk and has invoked the alert
\* callback with it; the iteration is about to be cleaned up.
C24_Witness ==
    \E w \in Workers :
        /\ pc[w] = "cleanup" /\ did_put[w] /\ alert_callback[w]
        /\ called[w] = <<AlertData(w)>>


\* A step in which a callback of worker w raises.
CallbackRaises(w) == raised[w] = "none" /\ raised'[w] # "none"

\* The exception is contained in the iteration: the worker goes on to the
\* clean-up and from there to the loop test, and neither step changes
\* is_monitoring or the queue.
Contained(w) ==
    /\ CallbackRaises(w) =>
          pc'[w] = "cleanup" /\ UNCHANGED <<is_monitoring, alert_queue>>
    /\ (pc[w] = "cleanup" /\ pc'[w] # "cleanup") =>
          pc'[w] = "check" /\ UNCHANGED <<is_monitoring, alert_queue>>

\* A step in which worker w leaves its loop through the outer handler,
\* for one of the given causes, setting is_monitoring to False.
EndsLoop(w, causes) ==
    (pc[w] # "failed" /\ pc'[w] = "failed") =>
        /\ failure'[w] \in causes
        /\ raised[w] = "none"
        /\ is_monitoring' = FALSE

\* C30 as stated (Spec).  An exception of a callback is contained in the
\* iteration, and only a failure of the capture stream itself ends the
\* loop and sets is_monitoring to False.
C30_OnlyStreamFailure ==
    [][\A w \in Workers : Contained(w) /\ EndsLoop(w, {"stream"})]_vars

\* C30, amended (Spec).  An exception of a callback is contained in the
\* iteration: the worker goes on to the clean-up and the loop test,
\* is_monitoring and the queue unchanged.  The loop ends through the outer
\* handler, with is_monitoring set to False, only when the capture stream
\* fails or when writing the chunk's temporary WAV file fails.
C30_Containment ==
    [][\A w \in Workers :
          Contained(w) /\ EndsLoop(w, {"stream", "file"})]_vars

\* The alert callback raised after the alert of the chunk was put: the
\* worker is at the clean-up, the monitor still monitoring, the alert in
\* the queue.
C30_Witness ==
    \E w \in Workers :
        /\ raised[w] = "alert_callback" /\ pc[w] = "cleanup"
        /\ is_monitoring
        /\ \E i \in 1..Len(alert_queue) : alert_queue[i] = AlertData(w)


\* stop_real_time_monitoring was called while worker w was alive and has
\* returned; start has not been called since.
StopHasReturned(w) == stopped[w] = "stopped" /\ hpc = "idle"

\* C26 (Spec).  After stop_real_time_monitoring has returned, the worker
\* it stopped puts no further alert on alert_queue and invokes neither
\* alert_callback nor audio_callback.
C26_QuietAfterStop ==
    [][\A w \in Workers :
          StopHasReturned(w) =>
              ~(pc[w] \in {"put", "alert_cb", "audio_cb"} /\ pc'[w] # pc[w])]_vars


\* The temporary WAV files that exist: a worker creates the file of its
\* chunk after stream.read (lines 1032-1038) and unlinks it at the end of
\* the iteration (lines 1069-1073).
TempFiles == {chunk[w] : w \in Workers} \ {0}

\* A step in which get_alerts returns its list to consumer c.
GetAlertsReturns(c) == cpc[c] # "idle" /\ cpc'[c] = "idle"

\* C28 (SpecDrain).  The worker never deletes the temporary WAV file of a
\* chunk whose alert is still in alert_queue, and the audio_file of every
\* alert that get_alerts returns refers to a file that exists.
C28_AudioFileExists ==
    /\ [](\A i \in 1..Len(alert_queue) : alert_queue[i].chunk \in TempFiles)
    /\ [][\A c \in Consumers :
            GetAlertsReturns(c) =>
                \A i \in 1..Len(alerts[c]) : alerts[c][i].chunk \in TempFiles]_vars


\* Nothing is on its way: the queue is empty, check_alerts_loop is not
\* inside get_alerts, and no worker is between the put of an alert and
\* its callback.
Quiescent ==
    /\ alert_queue = <<>>
    /\ \A c \in Consumers : cpc[c] = "idle"
    /\ \A w \in Workers : pc[w] # "alert_cb"

\* C27 (SpecHost).  Each alert of the monitor is handled by
\* handle_voice_alert exactly once: alert_counter never exceeds the number
\* of alerts created that pass the host's filters, and equals it when
\* nothing is on its way.
C27_HandledOnce ==
    /\ alert_counter <= passed
    /\ Quiescent => alert_counter = passed


\* stop_real_time_monitoring was called with worker w alive, no start can
\* follow, and the streams still hold a chunk for every worker alive, so
\* that no stream.read blocks for ever.
StoppedForGood(w) ==
    /\ stopped[w] = "stopped"
    /\ Cardinality(StartedWorkers) = limit.starts
    /\ captured + Cardinality({v \in Workers : Live(v)}) <= limit.chunks

\* The worker has left its loop, and with it the with-block of line 1027,
\* which closes the stream it opened.
Exited(w) == pc[w] \in {"done", "failed"}

=============================================================================
